---- MODULE Spec2Model ----
(***************************************************************************)
(* ct-mapreduce: the certificate database facade (FilesystemDatabase),     *)
(* the remote cache (MockRemoteCache), the storage backend (MockBackend)   *)
(* and the CT log follower that drives them.                               *)
(*                                                                         *)
(* Strings are sequences of character codes so that strings.Compare and    *)
(* sort.Search can be computed as the code computes them.  Issuer IDs are  *)
(* the base64 of a SHA-256 digest; the digest is not computed, an issuer   *)
(* is represented by its ID string.  Expiration dates (YYYY-MM-DD) and     *)
(* wall-clock times are day numbers.                                       *)
(***************************************************************************)
EXTENDS Integers, Sequences, FiniteSets, TLC

\* ------------------------------------------------------------------------
\* Bounds of the model
\* ------------------------------------------------------------------------
\* Store calls started in one run of the Store specifications.
MaxStores == 3
\* WasUnknown calls in one run of SpecKnown.
MaxCalls == 4
\* Ticks of the wall clock in SpecExpiry.
MaxClock == 3
\* Crashes of the ingest process in the follower specification.
MaxCrashes == 1
\* The largest tree size (get-sth) of the log in the follower specification.
TreeSize == 3
\* The follower's batchSize: the most entries of one window.
BatchSize == 2
\* The tuples main puts into workUnitsChan.
MaxUnits == 3

\* ------------------------------------------------------------------------
\* Strings
\* ------------------------------------------------------------------------
\* strings.Compare(a, b): -1, 0 or 1, bytewise lexicographic.
RECURSIVE Compare(_, _)
Compare(a, b) ==
  IF a = <<>> /\ b = <<>> THEN 0
  ELSE IF a = <<>> THEN -1
  ELSE IF b = <<>> THEN 1
  ELSE IF Head(a) < Head(b) THEN -1
  ELSE IF Head(a) > Head(b) THEN 1
  ELSE Compare(Tail(a), Tail(b))

\* The URL-safe base64 alphabet of encoding/base64 (A-Z a-z 0-9 - _), as
\* character codes.
B64Char(i) ==
  IF i < 26 THEN 65 + i
  ELSE IF i < 52 THEN 97 + (i - 26)
  ELSE IF i < 62 THEN 48 + (i - 52)
  ELSE IF i = 62 THEN 45
  ELSE 95

\* The padding character '='.
B64Pad == 61

\* base64.URLEncoding.EncodeToString: three bytes give four characters, a
\* final group of one or two bytes is padded with '='.
RECURSIVE B64Encode(_)
B64Encode(b) ==
  IF Len(b) = 0 THEN <<>>
  ELSE IF Len(b) = 1 THEN
    << B64Char(b[1] \div 4), B64Char((b[1] % 4) * 16), B64Pad, B64Pad >>
  ELSE IF Len(b) = 2 THEN
    << B64Char(b[1] \div 4), B64Char((b[1] % 4) * 16 + (b[2] \div 16)),
       B64Char((b[2] % 16) * 4), B64Pad >>
  ELSE
    << B64Char(b[1] \div 4), B64Char((b[1] % 4) * 16 + (b[2] \div 16)),
       B64Char((b[2] % 16) * 4 + (b[3] \div 64)), B64Char(b[3] % 64) >>
    \o B64Encode(SubSeq(b, 4, Len(b)))

\* Serial.ID(): URL-safe base64 of the raw serial bytes.
SerialID(serial) == B64Encode(serial)

\* The standard base64 alphabet's reading of a character ('+' and '/' for 62
\* and 63): a faulty decoder for URL-safe IDs.
B64IndexStd(c) ==
  IF c \in 65..90 THEN c - 65
  ELSE IF c \in 97..122 THEN c - 97 + 26
  ELSE IF c \in 48..57 THEN c - 48 + 52
  ELSE IF c = 43 THEN 62
  ELSE IF c = 47 THEN 63
  ELSE -1

\* The value of a character of the URL-safe alphabet, -1 for any other.
B64Index(c) ==
  IF c \in 65..90 THEN c - 65
  ELSE IF c \in 97..122 THEN c - 97 + 26
  ELSE IF c \in 48..57 THEN c - 48 + 52
  ELSE IF c = 45 THEN 62
  ELSE IF c = 95 THEN 63
  ELSE -1

\* base64.URLEncoding.DecodeString on a string without line breaks: groups
\* of four characters, padding only in the last group, any other character or
\* length an error.
RECURSIVE B64Decode(_)
B64Decode(s) ==
  IF Len(s) = 0 THEN [bytes |-> <<>>, err |-> FALSE]
  ELSE IF Len(s) < 4 THEN [bytes |-> <<>>, err |-> TRUE]
  ELSE
    LET i1 == B64Index(s[1])
        i2 == B64Index(s[2])
        i3 == B64Index(s[3])
        i4 == B64Index(s[4])
        last == Len(s) = 4
    IN IF i1 < 0 \/ i2 < 0 THEN [bytes |-> <<>>, err |-> TRUE]
       ELSE IF s[3] = B64Pad THEN
         IF s[4] = B64Pad /\ last
           THEN [bytes |-> <<i1 * 4 + (i2 \div 16)>>, err |-> FALSE]
           ELSE [bytes |-> <<>>, err |-> TRUE]
       ELSE IF i3 < 0 THEN [bytes |-> <<>>, err |-> TRUE]
       ELSE IF s[4] = B64Pad THEN
         IF last
           THEN [bytes |-> <<i1 * 4 + (i2 \div 16), (i2 % 16) * 16 + (i3 \div 4)>>,
                 err |-> FALSE]
           ELSE [bytes |-> <<>>, err |-> TRUE]
       ELSE IF i4 < 0 THEN [bytes |-> <<>>, err |-> TRUE]
       ELSE
         LET rest == B64Decode(SubSeq(s, 5, Len(s)))
         IN [bytes |-> <<i1 * 4 + (i2 \div 16), (i2 % 16) * 16 + (i3 \div 4),
                         (i3 % 4) * 64 + i4>> \o rest.bytes,
             err |-> rest.err]

\* NewSerialFromIDString: the decoded bytes, or Serial{} and the error.
NewSerialFromIDString(id) ==
  LET r == B64Decode(id)
  IN IF r.err THEN [serial |-> <<>>, err |-> TRUE] ELSE [serial |-> r.bytes, err |-> FALSE]

\* encoding/hex: the digits 0-9a-f; the decoder also reads A-F.
HexDigit(n) == IF n < 10 THEN 48 + n ELSE 97 + (n - 10)
FromHexChar(c) ==
  IF c \in 48..57 THEN c - 48
  ELSE IF c \in 97..102 THEN c - 97 + 10
  ELSE IF c \in 65..70 THEN c - 65 + 10
  ELSE -1

\* Serial.HexString(): hex.EncodeToString.
RECURSIVE HexString(_)
HexString(serial) ==
  IF Len(serial) = 0 THEN <<>>
  ELSE <<HexDigit(serial[1] \div 16), HexDigit(serial[1] % 16)>> \o HexString(Tail(serial))

\* hex.DecodeString: an error on an odd length or a character that is no digit.
RECURSIVE HexDecode(_)
HexDecode(s) ==
  IF Len(s) = 0 THEN [bytes |-> <<>>, err |-> FALSE]
  ELSE IF Len(s) = 1 THEN [bytes |-> <<>>, err |-> TRUE]
  ELSE LET hi == FromHexChar(s[1])
           lo == FromHexChar(s[2])
       IN IF hi < 0 \/ lo < 0 THEN [bytes |-> <<>>, err |-> TRUE]
          ELSE LET rest == HexDecode(SubSeq(s, 3, Len(s)))
               IN [bytes |-> <<hi * 16 + lo>> \o rest.bytes, err |-> rest.err]

\* NewSerialFromHex: the decoded bytes; err stands for the panic.
NewSerialFromHex(s) ==
  LET r == HexDecode(s)
  IN IF r.err THEN [serial |-> <<>>, err |-> TRUE] ELSE [serial |-> r.bytes, err |-> FALSE]

\* A uint32 as its four bytes, most significant first: v*m + a modulo 2^32,
\* and the quotient and remainder of v by d.
U32MulAdd(v, m, a) ==
  LET t4 == v[4] * m + a
      t3 == v[3] * m + (t4 \div 256)
      t2 == v[2] * m + (t3 \div 256)
      t1 == v[1] * m + (t2 \div 256)
  IN <<t1 % 256, t2 % 256, t3 % 256, t4 % 256>>

U32DivMod(v, d) ==
  LET c1 == v[1]
      c2 == (c1 % d) * 256 + v[2]
      c3 == (c2 % d) * 256 + v[3]
      c4 == (c3 % d) * 256 + v[4]
  IN [quot |-> <<c1 \div d, c2 \div d, c3 \div d, c4 \div d>>, rem |-> c4 % d]

U32Zero == <<0, 0, 0, 0>>

\* The n low base-85 digits of v as characters from '!', most significant
\* first: dst[i] = '!' + byte(v%85); v /= 85.
RECURSIVE Digits85(_, _)
Digits85(v, n) ==
  IF n = 0 THEN <<>>
  ELSE LET r == U32DivMod(v, 85)
       IN Digits85(r.quot, n - 1) \o <<33 + r.rem>>

\* Serial.Ascii85(): ascii85.Encode. Four bytes give five characters, four
\* zero bytes give 'z', a final group of k < 4 bytes gives k + 1 characters.
RECURSIVE Ascii85(_)
Ascii85(serial) ==
  IF Len(serial) = 0 THEN <<>>
  ELSE
    LET v == [k \in 1..4 |-> IF k <= Len(serial) THEN serial[k] ELSE 0]
    IN IF v = U32Zero /\ Len(serial) >= 4
         THEN <<122>> \o Ascii85(SubSeq(serial, 5, Len(serial)))
       ELSE IF Len(serial) < 4
         THEN SubSeq(Digits85(v, 5), 1, 5 - (4 - Len(serial)))
       ELSE Digits85(v, 5) \o Ascii85(SubSeq(serial, 5, Len(serial)))

\* The last fragment of ascii85.Decode with flush: the missing digits are
\* taken as 84.
RECURSIVE Pad85(_, _)
Pad85(v, nb) == IF nb >= 5 THEN v ELSE Pad85(U32MulAdd(v, 85, 84), nb + 1)

\* ascii85.Decode(dst, src, true) with len(dst) = 4*len(src), from character
\* i on: v and nb are the group being read, out the bytes written, nsrc the
\* characters consumed by complete groups.
RECURSIVE Ascii85Decode(_, _, _, _, _, _)
Ascii85Decode(src, i, v, nb, out, nsrc) ==
  IF i > Len(src) THEN
    IF nb = 0 THEN [bytes |-> out, nsrc |-> Len(src), err |-> FALSE]
    ELSE IF nb = 1 THEN [bytes |-> <<>>, nsrc |-> 0, err |-> TRUE]
    ELSE [bytes |-> out \o SubSeq(Pad85(v, nb), 1, nb - 1), nsrc |-> Len(src), err |-> FALSE]
  ELSE IF 4 * Len(src) - Len(out) < 4 THEN [bytes |-> out, nsrc |-> nsrc, err |-> FALSE]
  ELSE LET b == src[i]
       IN IF b <= 32 THEN Ascii85Decode(src, i + 1, v, nb, out, nsrc)
          ELSE IF b = 122 /\ nb = 0
            THEN Ascii85Decode(src, i + 1, U32Zero, 0, out \o U32Zero, i)
          ELSE IF b \in 33..117
            THEN IF nb + 1 = 5
                   THEN Ascii85Decode(src, i + 1, U32Zero, 0,
                                      out \o U32MulAdd(v, 85, b - 33), i)
                   ELSE Ascii85Decode(src, i + 1, U32MulAdd(v, 85, b - 33), nb + 1, out, nsrc)
          ELSE [bytes |-> <<>>, nsrc |-> 0, err |-> TRUE]

\* NewSerialFromAscii85: an error when the decoder fails or has not consumed
\* the whole string.
NewSerialFromAscii85(s) ==
  LET r == Ascii85Decode(s, 1, U32Zero, 0, <<>>, 0)
  IN IF r.err \/ r.nsrc # Len(s)
       THEN [serial |-> <<>>, err |-> TRUE]
       ELSE [serial |-> r.bytes, err |-> FALSE]

\* ------------------------------------------------------------------------
\* The certificates submitted in the model
\* ------------------------------------------------------------------------
\* Issuer IDs ("A", "B").
IssuerA == <<65>>
IssuerB == <<66>>
Issuers == {IssuerA, IssuerB}

\* Expiration dates, as day numbers.
ExpDates == {1, 2}

\* Raw serial bytes: 0x01, 0x00 0x01 (leading zero byte) and 0x02.
SerialOne == <<1>>
SerialZeroOne == <<0, 1>>
SerialTwo == <<2>>

\* Issuer distinguished names ("CA", "CB").
DnA == <<67, 65>>
DnB == <<67, 66>>

\* A certificate: NotAfter (as its expiration date), the issuer (by its ID),
\* the raw serial, Issuer.String() and the CRL distribution points.
Cert(e, i, s, dn) == [expDate |-> e, issuer |-> i, serial |-> s, dn |-> dn, crls |-> <<>>]

Certs ==
  { Cert(1, IssuerA, SerialOne, DnA),
    Cert(1, IssuerA, SerialZeroOne, DnA),
    Cert(2, IssuerA, SerialOne, DnA),
    Cert(1, IssuerB, SerialTwo, DnB) }

Workers == {"w1", "w2"}

\* ------------------------------------------------------------------------
\* MockRemoteCache
\* ------------------------------------------------------------------------
\* A faulty variant of the search: the predicate is Compare(entry, list[i]) < 0,
\* so the index found lies after an equal element.
RECURSIVE SearchFromStrict(_, _, _, _)
SearchFromStrict(list, entry, lo, hi) ==
  IF lo < hi THEN
    LET h == (lo + hi) \div 2 IN
      IF ~(Compare(entry, list[h + 1]) < 0)
        THEN SearchFromStrict(list, entry, h + 1, hi)
        ELSE SearchFromStrict(list, entry, lo, h)
  ELSE lo

\* sort.Search(n, f) with f(i) = (strings.Compare(entry, list[i]) <= 0): the
\* binary search of package sort, on 0-based indices lo..hi.
RECURSIVE SearchFrom(_, _, _, _)
SearchFrom(list, entry, lo, hi) ==
  IF lo < hi THEN
    LET h == (lo + hi) \div 2 IN
      IF ~(Compare(entry, list[h + 1]) <= 0)
        THEN SearchFrom(list, entry, h + 1, hi)
        ELSE SearchFrom(list, entry, lo, h)
  ELSE lo

\* A faulty search: the index found is always the end of the list.
SearchEnd(list, entry) == Len(list)

Search(list, entry) == SearchFrom(list, entry, 0, Len(list))

\* ec.Data[key]: the zero value (an empty slice) for a key not in the map.
DataAt(data, key) == IF key \in DOMAIN data THEN data[key] ELSE <<>>

\* A faulty slice insert: the entry is appended instead of placed at idx.
InsertAppend(list, idx, entry) == Append(list, entry)

\* The slice with entry inserted at 0-based index idx (append, copy, assign).
InsertAt(list, idx, entry) ==
  SubSeq(list, 1, idx) \o <<entry>> \o SubSeq(list, idx + 1, Len(list))

\* A faulty variant of SetInsert: no test for an entry that is already present.
SetInsertNoTest(data, key, entry) ==
  LET list == DataAt(data, key)
      idx == Search(list, entry)
  IN [data |-> [k \in DOMAIN data \cup {key} |->
                  IF k = key THEN InsertAt(list, idx, entry) ELSE data[k]],
      result |-> TRUE]

\* MockRemoteCache.SetInsert: the new Data map and the returned bool.
SetInsert(data, key, entry) ==
  LET list == DataAt(data, key)
      count == Len(list)
      idx == Search(list, entry)
  IN IF idx < count /\ Compare(entry, list[idx + 1]) = 0
       THEN [data |-> data, result |-> FALSE]
       ELSE [data |-> [k \in DOMAIN data \cup {key} |->
                         IF k = key THEN InsertAt(list, idx, entry) ELSE data[k]],
             result |-> TRUE]

\* A faulty expiry test: a key is dropped at its expiry time, not after it.
ExpiredKeysEager(exp, t) == {k \in DOMAIN exp : exp[k] <= t}

\* MockRemoteCache.CleanupExpiry: every key whose expiration is before now is
\* deleted from Data and from Expirations.
ExpiredKeys(exp, t) == {k \in DOMAIN exp : exp[k] < t}

CleanupData(data, exp, t) ==
  [k \in DOMAIN data \ ExpiredKeys(exp, t) |-> data[k]]

CleanupExpirations(exp, t) ==
  [k \in DOMAIN exp \ ExpiredKeys(exp, t) |-> exp[k]]

\* MockRemoteCache.SetContains, after its CleanupExpiry.
SetContains(data, key, entry) ==
  LET list == DataAt(data, key)
      idx == Search(list, entry)
  IN idx < Len(list) /\ Compare(entry, list[idx + 1]) = 0

\* MockRemoteCache.SetList, after its CleanupExpiry.
SetList(data, key) == DataAt(data, key)

\* MockRemoteCache.Exists, after its CleanupExpiry.
Exists(data, key) == key \in DOMAIN data

\* MockRemoteCache.ExpireAt: the new Expirations map.
ExpireAt(exp, key, expTime) ==
  [k \in DOMAIN exp \cup {key} |-> IF k = key THEN expTime ELSE exp[k]]

\* The members of a sorted set, as a set.
Members(data, key) == {DataAt(data, key)[n] : n \in 1..Len(DataAt(data, key))}

\* ------------------------------------------------------------------------
\* KnownCertificates and IssuerMetadata (cache backed)
\* ------------------------------------------------------------------------
\* The cache key of a shard's known-set: serials::<expDate>::<issuerID>.
SerialsKey(expDate, issuer) == <<"serials", expDate, issuer>>

\* Days between a shard's expiration date and the TTL of its serials key.
Slack == 1

\* The expDate of a handle built without one (the zero value of the field).
NoExpDate == 0

\* FilesystemDatabase.GetIssuerMetadata: the handle for an issuer. The map is
\* keyed by the issuer ID alone and the handle is built from the issuer and
\* the cache: it carries no expiration date.
NewHandle(issuer) == [expDate |-> NoExpDate, issuer |-> issuer]

\* IssuerMetadata.id(): "<expDate>::<issuerID>" of the handle.
MetaId(im) == <<im.expDate, im.issuer>>

IssuersKey(im) == <<"issuer", MetaId(im)[1], MetaId(im)[2]>>
CrlsKey(im) == <<"crl", MetaId(im)[1], MetaId(im)[2]>>

\* CRL distribution points, as character codes: "http://a", "ldap://b",
\* "https://c", "ftp://d", ":x", " http://a" and "HTTP://a".
CrlHttpA == <<104, 116, 116, 112, 58, 47, 47, 97>>
CrlLdapB == <<108, 100, 97, 112, 58, 47, 47, 98>>
CrlHttpsC == <<104, 116, 116, 112, 115, 58, 47, 47, 99>>
CrlFtpD == <<102, 116, 112, 58, 47, 47, 100>>
CrlNoScheme == <<58, 120>>
CrlSpaceHttpA == <<32>> \o CrlHttpA
CrlUpperHttpA == <<72, 84, 84, 80, 58, 47, 47, 97>>

\* The scheme names addCRL tests for.
SchemeHttp == <<104, 116, 116, 112>>
SchemeHttps == <<104, 116, 116, 112, 115>>
SchemeLdap == <<108, 100, 97, 112>>
SchemeLdaps == <<108, 100, 97, 112, 115>>

\* strings.TrimSpace: leading and trailing white space is cut off.
WhiteSpace == {9, 10, 11, 12, 13, 32}

RECURSIVE TrimLeft(_)
TrimLeft(s) ==
  IF Len(s) > 0 /\ Head(s) \in WhiteSpace THEN TrimLeft(Tail(s)) ELSE s

RECURSIVE TrimRight(_)
TrimRight(s) ==
  IF Len(s) > 0 /\ s[Len(s)] \in WhiteSpace
    THEN TrimRight(SubSeq(s, 1, Len(s) - 1)) ELSE s

TrimSpace(s) == TrimRight(TrimLeft(s))

\* strings.ToLower on ASCII.
ToLower(s) == [n \in 1..Len(s) |-> IF s[n] \in 65..90 THEN s[n] + 32 ELSE s[n]]

\* url.Parse, as far as addCRL depends on it: the scheme is the run of
\* letters (after the first character also digits, '+', '-', '.') before the
\* first ':', in lower case; a ':' in first place is a parse error; any other
\* character before a ':' means there is no scheme. i is the 1-based position.
RECURSIVE GetScheme(_, _)
GetScheme(rawURL, i) ==
  IF i > Len(rawURL) THEN [ok |-> TRUE, scheme |-> <<>>, rest |-> rawURL]
  ELSE LET c == rawURL[i] IN
    IF c \in 97..122 \/ c \in 65..90 THEN GetScheme(rawURL, i + 1)
    ELSE IF c \in 48..57 \/ c \in {43, 45, 46} THEN
      IF i = 1 THEN [ok |-> TRUE, scheme |-> <<>>, rest |-> rawURL]
      ELSE GetScheme(rawURL, i + 1)
    ELSE IF c = 58 THEN
      IF i = 1 THEN [ok |-> FALSE, scheme |-> <<>>, rest |-> <<>>]
      ELSE [ok |-> TRUE,
            scheme |-> ToLower(SubSeq(rawURL, 1, i - 1)),
            rest |-> SubSeq(rawURL, i + 1, Len(rawURL))]
    ELSE [ok |-> TRUE, scheme |-> <<>>, rest |-> rawURL]

ParseURL(rawURL) == GetScheme(rawURL, 1)

\* URL.String(): the scheme, ':' and what follows it. The distribution points
\* of this model have "//" and a host of unreserved characters after the
\* scheme, which String() writes out as parsed.
URLString(u) ==
  IF u.scheme = <<>> THEN u.rest ELSE u.scheme \o <<58>> \o u.rest

\* A faulty addCRL: the distribution point is parsed as it stands, without
\* TrimSpace.
CrlToInsertNoTrim(aCRL) ==
  LET u == ParseURL(aCRL)
  IN IF ~u.ok THEN <<>>
     ELSE IF u.scheme \in {SchemeLdap, SchemeLdaps} THEN <<>>
     ELSE IF u.scheme \notin {SchemeHttp, SchemeHttps} THEN <<>>
     ELSE <<URLString(u)>>

\* IssuerMetadata.addCRL up to its cache call: the string it inserts, as a
\* sequence of one element, or the empty sequence when it returns nil without
\* an insert (parse error, ldap/ldaps, a scheme other than http/https).
CrlToInsert(aCRL) ==
  LET u == ParseURL(TrimSpace(aCRL))
  IN IF ~u.ok THEN <<>>
     ELSE IF u.scheme \in {SchemeLdap, SchemeLdaps} THEN <<>>
     ELSE IF u.scheme \notin {SchemeHttp, SchemeHttps} THEN <<>>
     ELSE <<URLString(u)>>

\* The CRL loop of Accumulate: addCRL for each distribution point in order,
\* returning at the first error. n counts the cache operations made so far
\* and failAt is the operation that returns an error (0: none does); an
\* operation that fails leaves the cache as it was.
RECURSIVE AddCRLs(_, _, _, _, _)
AddCRLs(data, im, dps, n, failAt) ==
  IF dps = <<>> THEN [data |-> data, err |-> FALSE, n |-> n]
  ELSE LET ins == CrlToInsert(Head(dps)) IN
    IF ins = <<>> THEN AddCRLs(data, im, Tail(dps), n, failAt)
    ELSE IF n + 1 = failAt THEN [data |-> data, err |-> TRUE, n |-> n + 1]
    ELSE AddCRLs(SetInsert(data, CrlsKey(im), ins[1]).data, im, Tail(dps),
                 n + 1, failAt)

\* A faulty Accumulate: the issuer DN is recorded before the CRL loop.
AccumulateDNFirst(data, im, aCert, failAt) ==
  IF failAt = 1 THEN [data |-> data, seenBefore |-> FALSE, err |-> TRUE, crlErr |-> FALSE]
  ELSE LET seenBefore == Exists(data, IssuersKey(im))
           d == SetInsert(data, IssuersKey(im), aCert.dn).data
           r == AddCRLs(d, im, aCert.crls, 1, failAt)
       IN [data |-> r.data, seenBefore |-> seenBefore, err |-> r.err, crlErr |-> r.err]

\* IssuerMetadata.Accumulate on the cache contents data: the new contents,
\* seenBefore and whether an error is returned (crlErr: by a CRL insert).
\* The cache operations are Exists, one SortedInsert per http(s)
\* distribution point and the SortedInsert of the issuer DN.
Accumulate(data, im, aCert, failAt) ==
  IF failAt = 1 THEN [data |-> data, seenBefore |-> FALSE, err |-> TRUE, crlErr |-> FALSE]
  ELSE LET seenBefore == Exists(data, IssuersKey(im))
           r == AddCRLs(data, im, aCert.crls, 1, failAt)
       IN IF r.err
            THEN [data |-> r.data, seenBefore |-> seenBefore, err |-> TRUE, crlErr |-> TRUE]
          ELSE IF r.n + 1 = failAt
            THEN [data |-> r.data, seenBefore |-> seenBefore, err |-> TRUE, crlErr |-> FALSE]
          ELSE [data |-> SetInsert(r.data, IssuersKey(im), aCert.dn).data,
                seenBefore |-> seenBefore, err |-> FALSE, crlErr |-> FALSE]

\* IssuerMetadata.Issuers() and CRLs(): the SortedList of the two keys.
IssuersOf(data, im) == SetList(data, IssuersKey(im))
CRLsOf(data, im) == SetList(data, CrlsKey(im))

\* A faulty removal that does cut the entry at idx out of the slice.
RemoveAt(list, idx) == SubSeq(list, 1, idx) \o SubSeq(list, idx + 2, Len(list))

\* append(list[:idx], list[idx:]...), the slice SetRemove stores back: the
\* elements before idx followed by those from idx on, idx included.
AppendTail(list, idx) == SubSeq(list, 1, idx) \o SubSeq(list, idx + 1, Len(list))

\* MockRemoteCache.SetRemove, after its CleanupExpiry: the new Data map and
\* the returned bool.
SetRemove(data, key, entry) ==
  LET list == DataAt(data, key)
      count == Len(list)
      idx == Search(list, entry)
  IN IF idx < count /\ Compare(entry, list[idx + 1]) = 0
       THEN [data |-> [k \in DOMAIN data \cup {key} |->
                         IF k = key THEN AppendTail(list, idx) ELSE data[k]],
             result |-> TRUE]
       ELSE [data |-> data, result |-> FALSE]

\* ------------------------------------------------------------------------
\* The file-backed IssuerMetadata (storage/issuermetadata.go)
\* ------------------------------------------------------------------------
\* A faulty comparison: only the first bytes are compared.
CompareHead(a, b) ==
  Compare(IF a = <<>> THEN a ELSE <<Head(a)>>, IF b = <<>> THEN b ELSE <<Head(b)>>)

\* The comparison of addCRL's search and of its test for a known CRL.
CompareCRL(a, b) == Compare(a, b)

\* sort.Search(count, f) with f(i) = (strings.Compare(aCRL, *Crls[i]) <= 0).
RECURSIVE SearchCRL(_, _, _, _)
SearchCRL(crls, aCRL, lo, hi) ==
  IF lo < hi THEN
    LET h == (lo + hi) \div 2 IN
      IF ~(CompareCRL(aCRL, crls[h + 1]) <= 0)
        THEN SearchCRL(crls, aCRL, h + 1, hi)
        ELSE SearchCRL(crls, aCRL, lo, h)
  ELSE lo

\* IssuerMetadata.addCRL of the file-backed metadata: the new Crls slice.
addCRL(crls, aCRL) ==
  LET count == Len(crls)
      idx == SearchCRL(crls, aCRL, 0, count)
  IN IF idx < count /\ CompareCRL(aCRL, crls[idx + 1]) = 0
       THEN crls
       ELSE InsertAt(crls, idx, aCRL)

\* IssuerMetadata.Accumulate of the file-backed metadata: the loop over
\* aCert.CRLDistributionPoints. A parse error continues with the next entry,
\* http and https call addCRL with the entry as it stands, ldap and ldaps
\* return from Accumulate, any other scheme is passed over.
RECURSIVE FileAccumulate(_, _)
FileAccumulate(crls, dps) ==
  IF dps = <<>> THEN crls
  ELSE LET u == ParseURL(Head(dps)) IN
    IF ~u.ok THEN FileAccumulate(crls, Tail(dps))
    ELSE IF u.scheme \in {SchemeHttp, SchemeHttps}
      THEN FileAccumulate(addCRL(crls, Head(dps)), Tail(dps))
    ELSE IF u.scheme \in {SchemeLdap, SchemeLdaps} THEN crls
    ELSE FileAccumulate(crls, Tail(dps))

\* ------------------------------------------------------------------------
\* MockBackend
\* ------------------------------------------------------------------------
\* The first index i (0-based) with issuers[i].ID() >= issuer.ID(), by
\* binary search.
RECURSIVE SearchIssuerFrom(_, _, _, _)
SearchIssuerFrom(issuers, issuer, lo, hi) ==
  IF lo < hi THEN
    LET h == (lo + hi) \div 2 IN
      IF ~(Compare(issuers[h + 1], issuer) >= 0)
        THEN SearchIssuerFrom(issuers, issuer, h + 1, hi)
        ELSE SearchIssuerFrom(issuers, issuer, lo, h)
  ELSE lo

\* MockBackend.AllocateExpDateAndIssuer: the new expDateToIssuer map.
AllocateExpDateAndIssuer(e2i, expDate, issuer) ==
  LET issuers == IF expDate \in DOMAIN e2i THEN e2i[expDate] ELSE <<>>
      i == SearchIssuerFrom(issuers, issuer, 0, Len(issuers))
  IN IF i < Len(issuers) /\ issuers[i + 1] = issuer
       THEN e2i
       ELSE [d \in DOMAIN e2i \cup {expDate} |->
               IF d = expDate THEN InsertAt(issuers, i, issuer) ELSE e2i[d]]

\* A faulty key: the serial is left out, one key per shard.
PemKeyNoSerial(expDate, issuer, serial) == <<"pem", expDate, issuer>>

\* The key of a PEM document in MockBackend.store.
PemKey(expDate, issuer, serial) == <<"pem", expDate, issuer, SerialID(serial)>>

\* The key of a shard in MockBackend.expDateIssuerIDToSerials.
ShardKey(expDate, issuer) == <<expDate, issuer>>

\* MockBackend.StoreCertificatePEM: the new store map.
StorePEMDoc(store, serial, expDate, issuer, b) ==
  [k \in DOMAIN store \cup {PemKey(expDate, issuer, serial)} |->
     IF k = PemKey(expDate, issuer, serial) THEN b ELSE store[k]]

\* MockBackend.StoreCertificatePEM: the new expDateIssuerIDToSerials map.
StorePEMSerials(e2s, serial, expDate, issuer) ==
  LET key == ShardKey(expDate, issuer)
      val == IF key \in DOMAIN e2s THEN e2s[key] ELSE <<>>
  IN [k \in DOMAIN e2s \cup {key} |-> IF k = key THEN Append(val, serial) ELSE e2s[k]]

\* MockBackend.ListIssuersForExpirationDate.
ListIssuersForExpirationDate(e2i, expDate) ==
  IF expDate \in DOMAIN e2i THEN e2i[expDate] ELSE <<>>

\* The key of a log's checkpoint in MockBackend.store.
LogStateKey(shortURL) == <<"logstate", shortURL>>

\* A faulty FormatInt: only the last digit is written.
FormatIntLastDigit(n) == <<48 + (n % 10)>>

\* strconv.FormatInt(n, 10): the decimal digits, after a '-' for a negative n.
RECURSIVE Digits(_)
Digits(n) == IF n < 10 THEN <<48 + n>> ELSE Digits(n \div 10) \o <<48 + (n % 10)>>

FormatInt(n) == IF n < 0 THEN <<45>> \o Digits(0 - n) ELSE Digits(n)

\* strconv.ParseInt(s, 10, 64) on the digits FormatInt writes.
RECURSIVE ParseDigits(_, _)
ParseDigits(s, acc) ==
  IF s = <<>> THEN acc ELSE ParseDigits(Tail(s), 10 * acc + (Head(s) - 48))

ParseInt(s) ==
  IF s # <<>> /\ Head(s) = 45 THEN 0 - ParseDigits(Tail(s), 0) ELSE ParseDigits(s, 0)

\* The text of a JSON string: '"' and '\' are written after a '\'. (Control
\* characters, '<', '>', '&' and bytes that are not UTF-8 are escaped as
\* \uXXXX; the log URLs of this model have none.)
RECURSIVE JsonEscape(_)
JsonEscape(s) ==
  IF s = <<>> THEN <<>>
  ELSE (IF Head(s) \in {34, 92} THEN <<92, Head(s)>> ELSE <<Head(s)>>)
         \o JsonEscape(Tail(s))

RECURSIVE JsonUnescape(_)
JsonUnescape(s) ==
  IF s = <<>> THEN <<>>
  ELSE IF Head(s) = 92 /\ Len(s) > 1 THEN <<s[2]>> \o JsonUnescape(Tail(Tail(s)))
  ELSE <<Head(s)>> \o JsonUnescape(Tail(s))

\* json.Marshal(log): the JSON object of a CertificateLog, by the text of
\* its three members (LastEntryTime, a time.Time, by its day number).
JsonMarshal(log) ==
  [ShortURL |-> JsonEscape(log.ShortURL),
   MaxEntry |-> FormatInt(log.MaxEntry),
   LastEntryTime |-> FormatInt(log.LastEntryTime)]

\* json.Unmarshal(data, &log).
JsonUnmarshal(data) ==
  [ShortURL |-> JsonUnescape(data.ShortURL),
   MaxEntry |-> ParseInt(data.MaxEntry),
   LastEntryTime |-> ParseInt(data.LastEntryTime)]

\* A faulty StoreLogState: MaxEntry is narrowed to one bit before it is stored.
StoreLogStateNarrow(store, log) ==
  [k \in DOMAIN store \cup {LogStateKey(log.ShortURL)} |->
     IF k = LogStateKey(log.ShortURL)
       THEN JsonMarshal([log EXCEPT !.MaxEntry = @ % 2]) ELSE store[k]]

\* A faulty StoreLogState: the entry after MaxEntry is stored as MaxEntry.
StoreLogStateNext(store, log) ==
  [k \in DOMAIN store \cup {LogStateKey(log.ShortURL)} |->
     IF k = LogStateKey(log.ShortURL)
       THEN JsonMarshal([log EXCEPT !.MaxEntry = @ + 1]) ELSE store[k]]

\* MockBackend.StoreLogState: the new store map (the JSON of the checkpoint
\* under "logstate"+ShortURL).
StoreLogState(store, log) ==
  [k \in DOMAIN store \cup {LogStateKey(log.ShortURL)} |->
     IF k = LogStateKey(log.ShortURL) THEN JsonMarshal(log) ELSE store[k]]

\* A CertificateLog with only ShortURL set: MaxEntry 0 and the zero time.
NewLog(logURL) == [ShortURL |-> logURL, MaxEntry |-> 0, LastEntryTime |-> 0]

\* A faulty LoadLogState: the checkpoint comes back with MaxEntry one higher.
LoadLogStateSkip(store, logURL) ==
  IF LogStateKey(logURL) \in DOMAIN store
    THEN [JsonUnmarshal(store[LogStateKey(logURL)]) EXCEPT !.MaxEntry = @ + 1]
    ELSE [ShortURL |-> logURL, MaxEntry |-> 1, LastEntryTime |-> 0]

\* A faulty LoadLogState: the checkpoint of a log without one has no ShortURL.
LoadLogStateNoURL(store, logURL) ==
  IF LogStateKey(logURL) \in DOMAIN store
    THEN JsonUnmarshal(store[LogStateKey(logURL)])
    ELSE NewLog(<<>>)

\* MockBackend.LoadLogState: the stored checkpoint, or a zero-valued one with
\* ShortURL set.
LoadLogState(store, logURL) ==
  IF LogStateKey(logURL) \in DOMAIN store
    THEN JsonUnmarshal(store[LogStateKey(logURL)])
    ELSE NewLog(logURL)

\* MockBackend.LoadCertificatePEM: the bytes, or an empty slice and an error.
LoadCertificatePEM(store, serial, expDate, issuer) ==
  IF PemKey(expDate, issuer, serial) \in DOMAIN store
    THEN [data |-> store[PemKey(expDate, issuer, serial)], err |-> FALSE]
    ELSE [data |-> <<>>, err |-> TRUE]

\* MockBackend.ListSerialsForExpirationDateAndIssuer.
ListSerials(e2s, expDate, issuer) ==
  IF ShardKey(expDate, issuer) \in DOMAIN e2s THEN e2s[ShardKey(expDate, issuer)] ELSE <<>>

\* The serials of a sequence, as a set.
Range(seq) == {seq[n] : n \in 1..Len(seq)}

\* How often x occurs in seq.
RECURSIVE Occurrences(_, _)
Occurrences(seq, x) ==
  IF seq = <<>> THEN 0
  ELSE (IF Head(seq) = x THEN 1 ELSE 0) + Occurrences(Tail(seq), x)

\* ------------------------------------------------------------------------
\* State
\* ------------------------------------------------------------------------
VARIABLES
  cacheData,      \* MockRemoteCache.Data
  cacheExp,       \* MockRemoteCache.Expirations
  now,            \* the wall clock (time.Now), in days
  beE2I,          \* MockBackend.expDateToIssuer
  beE2S,          \* MockBackend.expDateIssuerIDToSerials
  beStore,        \* MockBackend.store
  meta,           \* FilesystemDatabase.meta: the issuer IDs with a handle
  pc,             \* per worker: its position in FilesystemDatabase.Store
  wcert,          \* per worker: aCert of the Store call in progress
  wentry,         \* per worker: aEntryId of the Store call in progress
  wUnknown,       \* per worker: certWasUnknown
  wSeen,          \* per worker: issuerSeenBefore
  nStores,        \* Store calls started so far by direct callers
  submitted,      \* history: per certificate, the direct Store calls started
  returned,       \* history: per certificate, the direct Store calls that returned nil
  sawUnknown,     \* history: per certificate, the calls that saw WasUnknown = true
  pemCalls,       \* history: per certificate, the StoreCertificatePEM calls
  allocCalls,     \* history: the shards AllocateExpDateAndIssuer was called for
  expiryCalls,    \* history: the shards SetExpiryFlag was called for
  dirtyCalls,     \* history: MarkDirty calls of direct Store calls
  calls,          \* history: the WasUnknown calls made directly on known-sets
  treeSize,       \* the log's tree_size (get-sth)
  fstate,         \* the log follower's state
  cpBase,         \* cp.MaxEntry of the checkpoint the run resumed from
  kDone,          \* the reorder buffer's k
  nextEntry,      \* the start of the next window to plan
  windows,        \* windows on the fetch queue, as <<a, b>> for [a, b)
  fetched,        \* entries on the ingest channel
  done,           \* entries whose Store call returned in this run
  delivered,      \* history: per entry, the deliveries to an ingest worker
                  \* (0, 1, or 2 for twice and more)
  completed,      \* history: entries whose Store call ever returned
  loaded,         \* history: the MaxEntry values LoadLogState returned
  crashes,        \* history: crashes so far
  interrupted,    \* history: certificates whose Store call a crash cut short
                  \* between the known-set insert and the PEM write
  lastAcc,        \* the last direct IssuerMetadata.Accumulate call and its results
  okAccs,         \* history: per handle, the Accumulate calls that returned nil
                  \* (0, 1, or 2 for twice and more)
  fsDocs,         \* FirestoreBackend: the documents of the database, by path
  lastOp,         \* the last direct backend call and what each backend returned
  mockWrites,     \* history: per PEM triple, the bytes of the MockBackend
                  \* StoreCertificatePEM calls that returned nil
  fsWrites,       \* history: the same for FirestoreBackend
  lastLog,        \* history: per log URL, the checkpoint last stored by a
                  \* direct StoreLogState call that returned nil, per backend
  stream,         \* one StreamSerialsForExpirationDateAndIssuer call: the
                  \* producer's position and locals, the channel and its reader
  alloc,          \* direct AllocateExpDateAndIssuer calls: per worker its
                  \* position, arguments and local slice; the calls returned
  boot,           \* one process start: the configuration, the position in
                  \* GetConfiguredStorage, what was connected, the exit
  codec,          \* one serial, its encoding in one form and what the
                  \* constructor of that form decoded from it
  merged,         \* one call of KnownCertificates.Merge or IsSorted on
                  \* list-backed known-sets: the lists and the outcome
  shut,           \* reprocess-known-certs: the position of main, of each
                  \* worker and of the waiting goroutine, the tuples left in
                  \* workUnitsChan, the signal in sigChan
  sterr,          \* the last Store call made with a failing operation: the
                  \* operations it made, what it returned, the state before;
                  \* history: the shards stored into, and those whose first
                  \* Store failed after the known-set insert
  sets,           \* direct SetInsert, SetRemove and SetContains calls on one key
                  \* of the mock cache, and addCRL and Accumulate calls on one
                  \* file-backed IssuerMetadata: the last call, the list before it,
                  \* the metadata; history: the entries inserted and added
  disk,            \* DiskDatabase: the known serials of the cache entry of one shard
                  \* file and of its .known file, the PEM blocks written to the
                  \* shard file, the CRLs of the entry; the last Store call
  gim             \* concurrent GetIssuerMetadata calls: per worker its position and
                  \* issuer, metaMutex, db.meta as the handle installed per issuer;
                  \* history: the handles created, installed and returned

cacheVars == <<cacheData, cacheExp>>
beVars == <<beE2I, beE2S, beStore>>
workerVars == <<pc, wcert, wentry, wUnknown, wSeen>>
historyVars == <<nStores, submitted, returned, sawUnknown, pemCalls, allocCalls,
                 expiryCalls, dirtyCalls>>

followerVars == <<treeSize, fstate, cpBase, kDone, nextEntry, windows, fetched, done, delivered,
                  completed, loaded, crashes, interrupted>>

metaVars == <<lastAcc, okAccs>>
backendVars == <<fsDocs, lastOp, mockWrites, fsWrites, lastLog>>
toolVars == <<alloc, boot, codec, shut, merged, sterr, sets, disk, gim>>
\* The tool variables other than the one named.
allocRest == <<boot, codec, shut, merged, sterr, sets, disk, gim>>
bootRest == <<alloc, codec, shut, merged, sterr, sets, disk, gim>>
codecRest == <<alloc, boot, shut, merged, sterr, sets, disk, gim>>
shutRest == <<alloc, boot, codec, merged, sterr, sets, disk, gim>>
mergedRest == <<alloc, boot, codec, shut, sterr, sets, disk, gim>>
sterrRest == <<alloc, boot, codec, shut, merged, sets, disk, gim>>
setsRest == <<alloc, boot, codec, shut, merged, sterr, disk, gim>>
diskRest == <<alloc, boot, codec, shut, merged, sterr, sets, gim>>
gimRest == <<alloc, boot, codec, shut, merged, sterr, sets, disk>>
extVars == <<metaVars, backendVars, stream, toolVars>>
vars == <<cacheVars, now, beVars, meta, workerVars, historyVars, calls, followerVars,
          extVars>>
\* The variables of the database, the follower and the direct backend calls.
baseVars == <<cacheVars, now, beVars, meta, workerVars, historyVars, calls, followerVars,
              metaVars, backendVars, stream>>

\* The value of wcert for a worker that is not inside Store.
NoCert == [expDate |-> 0, issuer |-> <<>>, serial |-> <<>>, dn |-> <<>>, crls |-> <<>>]

\* A per-certificate counter raised by one.
Bump(f, c) == [f EXCEPT ![c] = @ + 1]

InitStore ==
  /\ cacheData = <<>>
  /\ cacheExp = <<>>
  /\ now = 0
  /\ beE2I = <<>>
  /\ beE2S = <<>>
  /\ beStore = <<>>
  /\ meta = {}
  /\ pc = [w \in Workers |-> "idle"]
  /\ wcert = [w \in Workers |-> NoCert]
  /\ wentry = [w \in Workers |-> 0]
  /\ wUnknown = [w \in Workers |-> FALSE]
  /\ wSeen = [w \in Workers |-> FALSE]
  /\ nStores = 0
  /\ submitted = [c \in Certs |-> 0]
  /\ returned = [c \in Certs |-> 0]
  /\ sawUnknown = [c \in Certs |-> 0]
  /\ pemCalls = [c \in Certs |-> 0]
  /\ allocCalls = {}
  /\ expiryCalls = {}
  /\ dirtyCalls = 0

\* The log follower before its first run on a log of n entries: nothing
\* loaded, planned or delivered.
InitFollowerAt(n) ==
  /\ treeSize = n
  /\ fstate = "START"
  /\ cpBase = 0
  /\ kDone = 0
  /\ nextEntry = 0
  /\ windows = {}
  /\ fetched = {}
  /\ done = {}
  /\ delivered = [i \in 0..(TreeSize - 1) |-> 0]
  /\ completed = {}
  /\ loaded = <<>>
  /\ crashes = 0
  /\ interrupted = {}

InitFollower == InitFollowerAt(TreeSize)

\* The handles the metadata calls are made on, as NewIssuerMetadata builds
\* them: two shards of one issuer.
MetaHandles == {[expDate |-> e, issuer |-> IssuerA] : e \in ExpDates}

\* The value of lastAcc before the first Accumulate call.
NoAcc ==
  [called |-> FALSE, im |-> [expDate |-> 1, issuer |-> IssuerA], cert |-> NoCert,
   seenBefore |-> FALSE, err |-> FALSE, crlErr |-> FALSE, existsErr |-> FALSE,
   existed |-> FALSE, emptyBefore |-> FALSE, priorOk |-> 0, again |-> FALSE]

InitMeta ==
  /\ lastAcc = NoAcc
  /\ okAccs = [im \in MetaHandles |-> 0]

\* PEM bytes of two certificates.
PemX == <<88>>
PemY == <<89>>

\* The (serial, expDate, issuer) triples of the direct PEM calls: two serials
\* of one shard.
PemTriples == {<<SerialOne, 1, IssuerA>>, <<SerialZeroOne, 1, IssuerA>>}

\* A second log, "l/2", and the logs of the direct checkpoint calls: "l" and
\* "l/2".
LogURL2 == <<108, 47, 50>>
LogURLs == {<<108>>, LogURL2}

\* The nil *CertificateLog.
NoLog == <<>>

\* The value of lastOp before the first call.
NoOp ==
  [op |-> "none", key |-> <<>>, fault |-> "none", had |-> FALSE,
   mock |-> [data |-> <<>>, err |-> FALSE],
   fs |-> [data |-> <<>>, err |-> FALSE]]

InitBackend ==
  /\ fsDocs = <<>>
  /\ lastOp = NoOp
  /\ mockWrites = [t \in PemTriples |-> <<>>]
  /\ fsWrites = [t \in PemTriples |-> <<>>]
  /\ lastLog = [b \in {"mock", "fs"} |-> [u \in LogURLs |-> NoLog]]

\* No stream: no call made, no channel.
NoStream ==
  [pc |-> "idle", backend |-> "none", limit |-> 0, offset |-> 0, count |-> 0, pos |-> 0,
   chan |-> <<>>, got |-> <<>>, closed |-> FALSE, readerDone |-> FALSE,
   errors |-> 0, midPage |-> FALSE, fatal |-> FALSE, ctx |-> "live"]

\* No allocation call in progress or returned.
NoAlloc ==
  [pc |-> [w \in Workers |-> "idle"],
   arg |-> [w \in Workers |-> <<0, <<>>>>],
   issuers |-> [w \in Workers |-> <<>>],
   returned |-> {},
   crashed |-> FALSE]

\* A *string of the configuration that was not set.
Nil == <<-1>>

\* The reply of a Redis command that failed, and the nil error.
NoReply == <<-1>>
NoErr == <<>>

\* The process before GetConfiguredStorage is called.
NoBoot ==
  [pc |-> "start", certPath |-> Nil, projectId |-> Nil, redisTimeout |-> <<>>,
   server |-> [ping |-> FALSE, info |-> NoReply], firestoreOk |-> FALSE,
   connects |-> {}, cache |-> FALSE, warned |-> FALSE, backend |-> FALSE, db |-> FALSE,
   usage |-> FALSE, exit |-> -1, members |-> {}, inserts |-> 0,
   lastInsert |-> [reply |-> NoErr, returned |-> FALSE, result |-> FALSE, err |-> NoErr]]

\* No serial encoded yet.
NoCodec ==
  [serial |-> <<>>, form |-> "none", text |-> <<>>,
   back |-> [serial |-> <<>>, err |-> FALSE], decoded |-> FALSE]

\* reprocess-known-certs before its workers are started.
NoShut ==
  [main |-> "init", units |-> 0, worker |-> [w \in Workers |-> "none"],
   waiter |-> "none", sig |-> FALSE, signalled |-> FALSE,
   total |-> 0, closed |-> FALSE, caught |-> FALSE,
   tuple |-> [w \in Workers |-> 0],
   started |-> [u \in 1..MaxUnits |-> 0],
   finished |-> [u \in 1..MaxUnits |-> 0],
   by |-> [u \in 1..MaxUnits |-> {}]]

\* No Merge or IsSorted call made.
NoMerge ==
  [op |-> "none", left |-> <<>>, right |-> <<>>, known |-> <<>>, err |-> "nil",
   sorted |-> FALSE]

\* No Store call with a failing operation made.
NoFaultyStore ==
  [n |-> 0, cert |-> NoCert, fault |-> "none", ops |-> <<>>, err |-> "nil",
   unknown |-> FALSE, before |-> [data |-> <<>>, e2i |-> <<>>, e2s |-> <<>>, store |-> <<>>],
   called |-> {}, firstFailed |-> {}]

\* No direct set call made; NewIssuerMetadata: no CRL in the metadata.
NoSetCall ==
  [op |-> "none", entry |-> <<>>, dps |-> <<>>, result |-> FALSE, contained |-> FALSE,
   before |-> <<>>, crls |-> <<>>, inserted |-> {}, added |-> {}]

\* NewDiskDatabase on an empty directory: no cache entry loaded, nothing
\* written; no Store call made.
NoDisk ==
  [n |-> 0, mem |-> {}, file |-> {}, pems |-> <<>>, crls |-> <<>>, dirty |-> FALSE,
   last |-> [serial |-> <<>>, known |-> FALSE, attempts |-> <<>>, err |-> "none"]]

\* NewFilesystemDatabase: metaMutex free, db.meta empty (0: no handle); no
\* GetIssuerMetadata call made.
NoGets ==
  [pc |-> [w \in Workers |-> "idle"], issuer |-> [w \in Workers |-> <<>>],
   readers |-> 0, writer |-> FALSE, map |-> [i \in Issuers |-> 0], handles |-> 0,
   installs |-> [i \in Issuers |-> 0], got |-> [i \in Issuers |-> {}], n |-> 0]

InitTools ==
  /\ alloc = NoAlloc /\ boot = NoBoot /\ codec = NoCodec /\ shut = NoShut
  /\ merged = NoMerge /\ sterr = NoFaultyStore /\ sets = NoSetCall /\ disk = NoDisk /\ gim = NoGets

InitExt == InitMeta /\ InitBackend /\ stream = NoStream /\ InitTools

Init == InitStore /\ calls = <<>> /\ InitFollower /\ InitExt

\* A fresh database and a log of any size up to TreeSize, the empty log
\* included.
InitLog ==
  InitStore /\ calls = <<>> /\ InitExt /\ \E n \in 0..TreeSize : InitFollowerAt(n)

\* ------------------------------------------------------------------------
\* FilesystemDatabase.Store, one cache or backend operation per step
\* ------------------------------------------------------------------------
\* A caller enters Store with a certificate and an entry id.
StoreBegin(w, c) ==
  /\ pc[w] = "idle"
  /\ nStores < MaxStores
  /\ pc' = [pc EXCEPT ![w] = "WasUnknown"]
  /\ wcert' = [wcert EXCEPT ![w] = c]
  /\ wentry' = [wentry EXCEPT ![w] = nStores]
  /\ nStores' = nStores + 1
  /\ submitted' = Bump(submitted, c)
  /\ UNCHANGED <<cacheVars, now, beVars, meta, wUnknown, wSeen, returned, sawUnknown,
                 pemCalls, allocCalls, expiryCalls, dirtyCalls>>
  /\ UNCHANGED <<calls, followerVars, extVars>>

\* KnownCertificates.WasUnknown(serial): SortedInsert(serialsKey, serial.ID()).
WasUnknown(data, expDate, issuer, serial) ==
  SetInsert(data, SerialsKey(expDate, issuer), SerialID(serial))

\* A faulty variant of the first step of Store: the serial is looked up but not
\* inserted before the PEM write.
StoreWasUnknownTestOnly(w) ==
  /\ pc[w] = "WasUnknown"
  /\ LET c == wcert[w]
         known == SetContains(cacheData, SerialsKey(c.expDate, c.issuer), SerialID(c.serial))
     IN /\ wUnknown' = [wUnknown EXCEPT ![w] = ~known]
        /\ sawUnknown' = IF ~known THEN Bump(sawUnknown, c) ELSE sawUnknown
        /\ pc' = [pc EXCEPT ![w] = IF ~known THEN "Accumulate" ELSE "MarkDirty"]
  /\ UNCHANGED <<cacheVars, now, beVars, meta, wcert, wentry, wSeen, nStores, submitted,
                 returned, pemCalls, allocCalls, expiryCalls, dirtyCalls>>
  /\ UNCHANGED <<calls, followerVars, extVars>>

\* certWasUnknown, err := knownCerts.WasUnknown(serialNum)
StoreWasUnknown(w) ==
  /\ pc[w] = "WasUnknown"
  /\ LET c == wcert[w]
         r == WasUnknown(cacheData, c.expDate, c.issuer, c.serial)
     IN /\ cacheData' = r.data
        /\ wUnknown' = [wUnknown EXCEPT ![w] = r.result]
        /\ sawUnknown' = IF r.result THEN Bump(sawUnknown, c) ELSE sawUnknown
        /\ pc' = [pc EXCEPT ![w] = IF r.result THEN "Accumulate" ELSE "MarkDirty"]
  /\ UNCHANGED <<cacheExp, now, beVars, meta, wcert, wentry, wSeen, nStores, submitted,
                 returned, pemCalls, allocCalls, expiryCalls, dirtyCalls>>
  /\ UNCHANGED <<calls, followerVars, extVars>>

\* db.GetIssuerMetadata(issuer).Accumulate(aCert), up to the CRL loop:
\* seenBefore := cache.Exists(issuersKey) (with the mock's CleanupExpiry).
StoreAccumulate(w) ==
  /\ pc[w] = "Accumulate"
  /\ LET c == wcert[w]
         im == NewHandle(c.issuer)
         data == CleanupData(cacheData, cacheExp, now)
     IN /\ meta' = meta \cup {c.issuer}
        /\ cacheData' = data
        /\ cacheExp' = CleanupExpirations(cacheExp, now)
        /\ wSeen' = [wSeen EXCEPT ![w] = Exists(data, IssuersKey(im))]
  /\ pc' = [pc EXCEPT ![w] = "AddIssuerDN"]
  /\ UNCHANGED <<now, beVars, wcert, wentry, wUnknown, historyVars>>
  /\ UNCHANGED <<calls, followerVars, extVars>>

\* Accumulate's last statement: addIssuerDN(aCert.Issuer.String()).
StoreAddIssuerDN(w) ==
  /\ pc[w] = "AddIssuerDN"
  /\ LET c == wcert[w]
         im == NewHandle(c.issuer)
     IN cacheData' = SetInsert(cacheData, IssuersKey(im), c.dn).data
  /\ pc' = [pc EXCEPT ![w] = IF wSeen[w] THEN "StorePEM" ELSE "Allocate"]
  /\ UNCHANGED <<cacheExp, now, beVars, meta, wcert, wentry, wUnknown, wSeen, historyVars>>
  /\ UNCHANGED <<calls, followerVars, extVars>>

\* if !issuerSeenBefore: backend.AllocateExpDateAndIssuer(ctx, expDate, issuer)
StoreAllocate(w) ==
  /\ pc[w] = "Allocate"
  /\ LET c == wcert[w]
     IN /\ beE2I' = AllocateExpDateAndIssuer(beE2I, c.expDate, c.issuer)
        /\ allocCalls' = allocCalls \cup {<<c.expDate, c.issuer>>}
  /\ pc' = [pc EXCEPT ![w] = "SetExpiryFlag"]
  /\ UNCHANGED <<cacheVars, now, beE2S, beStore, meta, wcert, wentry, wUnknown, wSeen,
                 nStores, submitted, returned, sawUnknown, pemCalls, expiryCalls,
                 dirtyCalls>>
  /\ UNCHANGED <<calls, followerVars, extVars>>

\* KnownCertificates.SetExpiryFlag(): ExpireAt(serialsKey, expDate + slack).
SetExpiryFlag(exp, expDate, issuer) ==
  ExpireAt(exp, SerialsKey(expDate, issuer), expDate + Slack)

\* knownCerts.SetExpiryFlag()
StoreSetExpiryFlag(w) ==
  /\ pc[w] = "SetExpiryFlag"
  /\ LET c == wcert[w]
     IN /\ cacheExp' = SetExpiryFlag(cacheExp, c.expDate, c.issuer)
        /\ expiryCalls' = expiryCalls \cup {<<c.expDate, c.issuer>>}
  /\ pc' = [pc EXCEPT ![w] = "StorePEM"]
  /\ UNCHANGED <<cacheData, now, beVars, meta, wcert, wentry, wUnknown, wSeen,
                 nStores, submitted, returned, sawUnknown, pemCalls, allocCalls,
                 dirtyCalls>>
  /\ UNCHANGED <<calls, followerVars, extVars>>

\* pem.EncodeToMemory(&pemblock): the headers Entry-id and Recorded-at and the
\* certificate's bytes (the certificate stands for its DER).
PemBlock(c, entryId, t) == [cert |-> c, entryId |-> entryId, recordedAt |-> t]

\* backend.StoreCertificatePEM(ctx, serialNum, expDate, issuer, pem)
StoreCertPEM(w) ==
  /\ pc[w] = "StorePEM"
  /\ LET c == wcert[w]
     IN /\ beStore' = StorePEMDoc(beStore, c.serial, c.expDate, c.issuer,
                                  PemBlock(c, wentry[w], now))
        /\ beE2S' = StorePEMSerials(beE2S, c.serial, c.expDate, c.issuer)
        /\ pemCalls' = Bump(pemCalls, c)
  /\ pc' = [pc EXCEPT ![w] = "MarkDirty"]
  /\ UNCHANGED <<cacheVars, now, beE2I, meta, wcert, wentry, wUnknown, wSeen,
                 nStores, submitted, returned, sawUnknown, allocCalls, expiryCalls,
                 dirtyCalls>>
  /\ UNCHANGED <<calls, followerVars, extVars>>

\* db.markDirty(&aCert.NotAfter) (MockBackend.MarkDirty does nothing), return nil.
StoreMarkDirty(w) ==
  /\ pc[w] = "MarkDirty"
  /\ dirtyCalls' = dirtyCalls + 1
  /\ returned' = Bump(returned, wcert[w])
  /\ pc' = [pc EXCEPT ![w] = "idle"]
  /\ wcert' = [wcert EXCEPT ![w] = NoCert]
  /\ wentry' = [wentry EXCEPT ![w] = 0]
  /\ wUnknown' = [wUnknown EXCEPT ![w] = FALSE]
  /\ wSeen' = [wSeen EXCEPT ![w] = FALSE]
  /\ UNCHANGED <<cacheVars, now, beVars, meta, nStores, submitted, sawUnknown,
                 pemCalls, allocCalls, expiryCalls>>
  /\ UNCHANGED <<calls, followerVars, extVars>>

\* One step of a Store call that is in progress.
StoreStep(w) ==
  \/ StoreWasUnknown(w)
  \/ StoreAccumulate(w)
  \/ StoreAddIssuerDN(w)
  \/ StoreAllocate(w)
  \/ StoreSetExpiryFlag(w)
  \/ StoreCertPEM(w)
  \/ StoreMarkDirty(w)

NextStore ==
  \E w \in Workers :
    \/ \E c \in Certs : StoreBegin(w, c)
    \/ StoreStep(w)

\* Concurrent Store calls on one database, the clock standing still before
\* every shard's TTL.
Spec == Init /\ [][NextStore]_vars

\* ------------------------------------------------------------------------
\* Properties of concurrent Store calls
\* ------------------------------------------------------------------------
Idle == \A w \in Workers : pc[w] = "idle"

\* No Store call for shard (e, i) is in progress.
ShardQuiet(e, i) ==
  \A w \in Workers : pc[w] = "idle" \/ wcert[w].expDate # e \/ wcert[w].issuer # i

CertsOf(e, i) == {c \in Certs : c.expDate = e /\ c.issuer = i}

RECURSIVE SumOver(_, _)
SumOver(f, S) ==
  IF S = {} THEN 0
  ELSE LET x == CHOOSE y \in S : TRUE IN f[x] + SumOver(f, S \ {x})

C6_ShardAllocation ==
  Idle =>
    \A c \in Certs :
      pemCalls[c] > 0 =>
        /\ <<c.expDate, c.issuer>> \in allocCalls
        /\ c.issuer \in Range(ListIssuersForExpirationDate(beE2I, c.expDate))

\* What the program holds for shard (e, i): the known-set, the issuer-DN and
\* CRL sets read through the handle GetIssuerMetadata gives for the shard,
\* the allocation marker and the PEM documents.
ShardView(e, i) ==
  [known  |-> SetList(cacheData, SerialsKey(e, i)),
   dns    |-> IssuersOf(cacheData, NewHandle(i)),
   crls   |-> CRLsOf(cacheData, NewHandle(i)),
   marker |-> i \in Range(ListIssuersForExpirationDate(beE2I, e)),
   pems   |-> {<<k, beStore[k]>> : k \in {q \in DOMAIN beStore :
                                            q[1] = "pem" /\ q[2] = e /\ q[3] = i}}]

\* C24 (Shard independence): a step of a Store of a certificate of shard
\* (e, i) leaves the known-set, issuer-DN set, CRL set, allocation marker and
\* PEM documents of every other shard unchanged.
C24_ShardIndependence ==
  [][\A w \in Workers :
       StoreStep(w) =>
         \A e \in ExpDates, i \in Issuers :
           <<e, i>> # <<wcert[w].expDate, wcert[w].issuer>> =>
             ShardView(e, i)' = ShardView(e, i)]_vars

\* C32 (Every known-set carries an expiry): once the Store calls have
\* returned, SetExpiryFlag has been called on the known-set of every shard
\* with a known serial, and the key has an expiry time.
C32_KnownSetExpiry ==
  Idle =>
    \A e \in ExpDates, i \in Issuers :
      SetList(cacheData, SerialsKey(e, i)) # <<>> =>
        /\ <<e, i>> \in expiryCalls
        /\ SerialsKey(e, i) \in DOMAIN cacheExp

\* ------------------------------------------------------------------------
\* KnownCertificates.WasUnknown called directly on the known-sets
\* ------------------------------------------------------------------------
Serials == {SerialOne, SerialZeroOne, SerialTwo}

\* NewKnownCertificates(e, i, cache).WasUnknown(s), recorded with its result.
KnownWasUnknown(e, i, s) ==
  /\ Len(calls) < MaxCalls
  /\ LET r == WasUnknown(cacheData, e, i, s)
     IN /\ cacheData' = r.data
        /\ calls' = Append(calls, [expDate |-> e, issuer |-> i, serial |-> s,
                                   result |-> r.result])
  /\ UNCHANGED <<cacheExp, now, beVars, meta, workerVars, historyVars, followerVars, extVars>>

NextKnown ==
  \E e \in ExpDates, i \in Issuers, s \in Serials : KnownWasUnknown(e, i, s)

\* Any sequence of WasUnknown calls on the known-sets of the shards.
SpecKnown == Init /\ [][NextKnown]_vars

\* Call n and call m were made on the same shard with the same serial.
SameCall(n, m) ==
  /\ calls[n].expDate = calls[m].expDate
  /\ calls[n].issuer = calls[m].issuer
  /\ calls[n].serial = calls[m].serial

\* C4 (P2, return-true-exactly-once): after any sequence of WasUnknown calls,
\* a call returned true if and only if its serial had not been passed to
\* WasUnknown on that shard before, and the members of a shard's known-set
\* (the serials a further call returns false for) are exactly the serials
\* passed before.
C4_TrueExactlyOnce ==
  /\ \A n \in 1..Len(calls) :
       calls[n].result = ~(\E m \in 1..(n - 1) : SameCall(m, n))
  /\ \A e \in ExpDates, i \in Issuers, s \in Serials :
       ~WasUnknown(cacheData, e, i, s).result
         = (\E m \in 1..Len(calls) :
              calls[m].expDate = e /\ calls[m].issuer = i /\ calls[m].serial = s)

\* A serial was passed twice to one shard's known-set with a smaller serial ID
\* passed in between: true, then false on the repeat.
C4_Witness ==
  \E n, m, l \in 1..Len(calls) :
    /\ n < m /\ m < l
    /\ SameCall(n, l) /\ calls[n].result /\ ~calls[l].result
    /\ calls[m].expDate = calls[n].expDate /\ calls[m].issuer = calls[n].issuer
    /\ Compare(SerialID(calls[m].serial), SerialID(calls[n].serial)) < 0
    /\ calls[m].result

\* ------------------------------------------------------------------------
\* Store calls and cache reads while the clock advances
\* ------------------------------------------------------------------------
\* time.Now() advances by a day.
Tick ==
  /\ now < MaxClock
  /\ now' = now + 1
  /\ UNCHANGED <<cacheVars, beVars, meta, workerVars, historyVars, calls, followerVars, extVars>>

\* A cache read (SetContains, SetList or Exists) by any client: each starts
\* with CleanupExpiry and changes nothing else.
CacheRead ==
  /\ cacheData' = CleanupData(cacheData, cacheExp, now)
  /\ cacheExp' = CleanupExpirations(cacheExp, now)
  /\ UNCHANGED <<now, beVars, meta, workerVars, historyVars, calls, followerVars, extVars>>

\* Store calls made one after the other, the clock advancing and other
\* clients reading the cache in between their steps.
NextExpiry ==
  \/ \E c \in Certs : StoreBegin("w1", c)
  \/ StoreStep("w1")
  \/ Tick
  \/ CacheRead

SpecExpiry == Init /\ [][NextExpiry]_vars

SerialsKeys == {SerialsKey(e, i) : e \in ExpDates, i \in Issuers}

\* C5 as stated (I2): across Store, WasUnknown, SetExpiryFlag and cache
\* reads, the members of a serials key never lose an element.
C5_AppendOnly ==
  [][\A k \in SerialsKeys : Members(cacheData, k) \subseteq Members(cacheData', k)]_vars

\* C5, amended: a step never removes a member of a serials key unless the
\* key carries an expiry time that is before the clock, in which case the
\* cache may drop the whole key.
C5_AppendOnlyUntilExpiry ==
  [][\A k \in SerialsKeys :
       \/ Members(cacheData, k) \subseteq Members(cacheData', k)
       \/ /\ k \in DOMAIN cacheExp
          /\ cacheExp[k] < now
          /\ Members(cacheData', k) = {}]_vars

\* A serial was stored, its shard's TTL has passed and a cache read has
\* dropped the shard's known-set.
C5_Witness ==
  \E c \in Certs :
    /\ pemCalls[c] > 0
    /\ now > c.expDate + Slack
    /\ <<c.expDate, c.issuer>> \in expiryCalls
    /\ Members(cacheData, SerialsKey(c.expDate, c.issuer)) = {}

\* ------------------------------------------------------------------------
\* The CT log follower (section 4.7) over FilesystemDatabase and MockBackend
\* ------------------------------------------------------------------------
LogURL == <<108>>

\* The certificates of the log's entries; entry i holds LogEntry(i).
LogCerts ==
  <<Cert(1, IssuerA, SerialOne, DnA), Cert(1, IssuerA, SerialZeroOne, DnA),
    Cert(1, IssuerA, SerialOne, DnA), Cert(1, IssuerB, SerialTwo, DnB)>>

LogEntry(i) == LogCerts[(i % Len(LogCerts)) + 1]

Min(a, b) == IF a <= b THEN a ELSE b

\* The reorder buffer at resume: nothing after cp.MaxEntry is ingested yet.
ReorderInit(cp) == cp.MaxEntry

\* The reorder buffer: the largest j such that k+1 .. j are all ingested.
RECURSIVE Advance(_, _)
Advance(k, ingested) ==
  IF (k + 1) \in ingested THEN Advance(k + 1, ingested) ELSE k

\* The checkpoint the checkpointer persists for k.
Checkpoint(k) == [ShortURL |-> LogURL, MaxEntry |-> k, LastEntryTime |-> now]

\* Resume: cp := LoadLogState(shortURL); IDLE if tree_size <= cp.MaxEntry + 1
\* (the checkpoint is persisted on the transition), FETCHING otherwise.
Resume ==
  /\ fstate \in {"START", "CRASHED"}
  /\ LET cp == LoadLogState(beStore, LogURL)
     IN /\ loaded' = Append(loaded, cp.MaxEntry)
        /\ cpBase' = cp.MaxEntry
        /\ kDone' = ReorderInit(cp)
        /\ nextEntry' = cp.MaxEntry + 1
        /\ IF treeSize <= cp.MaxEntry + 1
             THEN /\ fstate' = "IDLE"
                  /\ beStore' = StoreLogState(beStore, Checkpoint(ReorderInit(cp)))
             ELSE /\ fstate' = "FETCHING"
                  /\ UNCHANGED beStore
  /\ windows' = {}
  /\ fetched' = {}
  /\ done' = {}
  /\ UNCHANGED <<cacheVars, now, beE2I, beE2S, meta, workerVars, historyVars, calls,
                 delivered, completed, crashes, interrupted>>
  /\ UNCHANGED <<treeSize, extVars>>

\* Window planning: the next half-open range [a, b) of up to BatchSize
\* entries is placed on the fetch queue.
PlanWindow ==
  /\ fstate = "FETCHING"
  /\ nextEntry < treeSize
  /\ LET b == Min(nextEntry + BatchSize, treeSize)
     IN /\ windows' = windows \cup {<<nextEntry, b>>}
        /\ nextEntry' = b
  /\ UNCHANGED <<cacheVars, now, beVars, meta, workerVars, historyVars, calls,
                 fstate, cpBase, kDone, fetched, done, delivered, completed, loaded,
                 crashes, interrupted>>
  /\ UNCHANGED <<treeSize, extVars>>

\* A fetch worker pulls a window, gets its entries from the log and forwards
\* them to the ingest channel.
FetchWindow(win) ==
  /\ fstate = "FETCHING"
  /\ win \in windows
  /\ windows' = windows \ {win}
  /\ fetched' = fetched \cup (win[1]..(win[2] - 1))
  /\ UNCHANGED <<cacheVars, now, beVars, meta, workerVars, historyVars, calls,
                 fstate, cpBase, kDone, nextEntry, done, delivered, completed, loaded,
                 crashes, interrupted>>
  /\ UNCHANGED <<treeSize, extVars>>

\* An ingest worker reads an entry from the ingest channel and enters
\* db.Store with its certificate and its entry index.
IngestBegin(w, idx) ==
  /\ fstate = "FETCHING"
  /\ pc[w] = "idle"
  /\ idx \in fetched
  /\ fetched' = fetched \ {idx}
  /\ delivered' = [delivered EXCEPT ![idx] = Min(@ + 1, 2)]
  /\ pc' = [pc EXCEPT ![w] = "WasUnknown"]
  /\ wcert' = [wcert EXCEPT ![w] = LogEntry(idx)]
  /\ wentry' = [wentry EXCEPT ![w] = idx]
  /\ UNCHANGED <<cacheVars, now, beVars, meta, wUnknown, wSeen, historyVars, calls,
                 fstate, cpBase, kDone, nextEntry, windows, done, completed, loaded,
                 crashes, interrupted>>
  /\ UNCHANGED <<treeSize, extVars>>

\* db.Store returns (its markDirty step) and the completion reaches the
\* reorder buffer.
IngestDone(w) ==
  /\ fstate = "FETCHING"
  /\ pc[w] = "MarkDirty"
  /\ pc' = [pc EXCEPT ![w] = "idle"]
  /\ wcert' = [wcert EXCEPT ![w] = NoCert]
  /\ wentry' = [wentry EXCEPT ![w] = 0]
  /\ wUnknown' = [wUnknown EXCEPT ![w] = FALSE]
  /\ wSeen' = [wSeen EXCEPT ![w] = FALSE]
  /\ done' = done \cup {wentry[w]}
  /\ completed' = completed \cup {wentry[w]}
  /\ kDone' = Advance(kDone, done \cup {wentry[w]})
  /\ UNCHANGED <<cacheVars, now, beVars, meta, historyVars, calls,
                 fstate, cpBase, nextEntry, windows, fetched, delivered, loaded,
                 crashes, interrupted>>
  /\ UNCHANGED <<treeSize, extVars>>

\* The checkpointer persists MaxEntry = k (on a stride or a graceful
\* shutdown): db.SaveLogState -> backend.StoreLogState.
PersistCheckpoint ==
  /\ fstate = "FETCHING"
  /\ beStore' = StoreLogState(beStore, Checkpoint(kDone))
  /\ UNCHANGED <<cacheVars, now, beE2I, beE2S, meta, workerVars, historyVars, calls,
                 followerVars, extVars>>

\* Everything up to tree_size is planned, fetched and ingested: the
\* checkpoint is persisted and the follower is IDLE.
GoIdle ==
  /\ fstate = "FETCHING"
  /\ nextEntry >= treeSize
  /\ windows = {}
  /\ fetched = {}
  /\ \A w \in Workers : pc[w] = "idle"
  /\ beStore' = StoreLogState(beStore, Checkpoint(kDone))
  /\ fstate' = "IDLE"
  /\ UNCHANGED <<cacheVars, now, beE2I, beE2S, meta, workerVars, historyVars, calls,
                 cpBase, kDone, nextEntry, windows, fetched, done, delivered, completed,
                 loaded, crashes, interrupted>>
  /\ UNCHANGED <<treeSize, extVars>>

\* The positions of Store after the known-set insert returned true and
\* before StoreCertificatePEM.
BeforePEM == {"Accumulate", "AddIssuerDN", "Allocate", "SetExpiryFlag", "StorePEM"}

\* The process dies: the queues, the Store calls in progress and the handles
\* are gone; the cache and the backend keep what was written.
Crash ==
  /\ fstate = "FETCHING"
  /\ crashes < MaxCrashes
  /\ crashes' = crashes + 1
  /\ fstate' = "CRASHED"
  /\ interrupted' = interrupted \cup {wcert[w] : w \in {v \in Workers : pc[v] \in BeforePEM}}
  /\ pc' = [w \in Workers |-> "idle"]
  /\ wcert' = [w \in Workers |-> NoCert]
  /\ wentry' = [w \in Workers |-> 0]
  /\ wUnknown' = [w \in Workers |-> FALSE]
  /\ wSeen' = [w \in Workers |-> FALSE]
  /\ meta' = {}
  /\ windows' = {}
  /\ fetched' = {}
  /\ UNCHANGED <<cacheVars, now, beVars, historyVars, calls,
                 cpBase, kDone, nextEntry, done, delivered, completed, loaded>>
  /\ UNCHANGED <<treeSize, extVars>>

NextFollower ==
  \/ Resume
  \/ PlanWindow
  \/ \E win \in windows : FetchWindow(win)
  \/ \E w \in Workers, idx \in 0..(TreeSize - 1) : IngestBegin(w, idx)
  \/ \E w \in Workers :
       \/ StoreWasUnknown(w)
       \/ StoreAccumulate(w)
       \/ StoreAddIssuerDN(w)
       \/ StoreAllocate(w)
       \/ StoreSetExpiryFlag(w)
       \/ StoreCertPEM(w)
       \/ IngestDone(w)
  \/ PersistCheckpoint
  \/ GoIdle
  \/ Crash

\* One log followed from a fresh database to IDLE, with crashes and restarts.
SpecFollower == InitLog /\ [][NextFollower]_vars

\* ------------------------------------------------------------------------
\* Properties of the log follower
\* ------------------------------------------------------------------------
\* MaxEntry of the checkpoint a LoadLogState call would return now.
PersistedMaxEntry == LoadLogState(beStore, LogURL).MaxEntry

HasPEM(c) == PemKey(c.expDate, c.issuer, c.serial) \in DOMAIN beStore

\* The serials StreamSerials / ListSerials enumerate for the shard of c.
ShardSerials(c) ==
  IF ShardKey(c.expDate, c.issuer) \in DOMAIN beE2S
    THEN beE2S[ShardKey(c.expDate, c.issuer)] ELSE <<>>

\* The first entry the first run asked the log for.
FirstStart == IF loaded = <<>> THEN 0 ELSE loaded[1] + 1

C8_CheckpointMonotone ==
  [][/\ LoadLogState(beStore', LogURL).MaxEntry >= PersistedMaxEntry
     /\ cpBase' >= cpBase]_vars

\* A run was restarted from a checkpoint past the fresh one and has since
\* persisted a later checkpoint.
C8_Witness ==
  /\ Len(loaded) = 2
  /\ loaded[2] > loaded[1]
  /\ fstate = "FETCHING"
  /\ PersistedMaxEntry > loaded[2]

\* C9 (I3): whenever a checkpoint is persisted, every entry from the start of
\* the first run up to and including MaxEntry has completed db.Store, those
\* after the resumed checkpoint in this run; MaxEntry is below every entry
\* that is in flight, on the ingest channel, in a window or not yet planned.
C9_CheckpointBehindIngest ==
  LogStateKey(LogURL) \in DOMAIN beStore =>
    /\ \A idx \in FirstStart..PersistedMaxEntry : idx \in completed
    /\ \A idx \in (cpBase + 1)..PersistedMaxEntry : idx \in done
    /\ \A w \in Workers : pc[w] # "idle" => wentry[w] > PersistedMaxEntry
    /\ \A idx \in fetched : idx > PersistedMaxEntry
    /\ \A win \in windows : win[1] > PersistedMaxEntry
    /\ fstate = "FETCHING" => nextEntry > PersistedMaxEntry

\* Entry 2 completed before entry 1, which is still in flight, and a
\* checkpoint was persisted in between: it stays before entry 1.
C9_Witness ==
  /\ fstate = "FETCHING"
  /\ LogStateKey(LogURL) \in DOMAIN beStore
  /\ 2 \in done
  /\ 1 \notin done
  /\ \E w \in Workers : pc[w] = "StorePEM" /\ wentry[w] = 1

\* C10: from a log with no stored checkpoint, a run to IDLE delivers every
\* entry index in [0, tree_size) to ingest exactly once.
C10_FreshExactlyOnce ==
  (fstate = "IDLE" /\ crashes = 0) =>
    \A idx \in 0..(treeSize - 1) : delivered[idx] = 1

\* C11 (E1): a run on a log with tree_size = 0 and no prior checkpoint makes
\* no known-set, metadata, marker or PEM write, and the checkpoint
\* LoadLogState returns after the run has MaxEntry = -1, the unset sentinel.
C11_EmptyLogUnset ==
  (treeSize = 0 /\ fstate = "IDLE") =>
    /\ cacheData = <<>>
    /\ beE2I = <<>>
    /\ beE2S = <<>>
    /\ DOMAIN beStore \subseteq {LogStateKey(LogURL)}
    /\ PersistedMaxEntry = -1

\* ------------------------------------------------------------------------
\* IssuerMetadata called directly
\* ------------------------------------------------------------------------
\* The lists of CRL distribution points of the certificates accumulated: none,
\* a mix of http, ldap, https and a repeat, an entry with leading white space,
\* entries of another scheme and without one before an https entry, and a
\* scheme in upper case.
CrlLists ==
  { <<>>,
    <<CrlHttpA, CrlLdapB, CrlHttpsC, CrlHttpA>>,
    <<CrlSpaceHttpA>>,
    <<CrlFtpD, CrlNoScheme, CrlHttpsC>>,
    <<CrlUpperHttpA>> }

\* The certificates accumulated: one issuer DN with each of the lists, and a
\* second DN of the same issuer.
MetaCerts ==
  {[Cert(1, IssuerA, SerialOne, DnA) EXCEPT !.crls = l] : l \in CrlLists}
    \cup {Cert(1, IssuerA, SerialTwo, DnB)}

\* The cache operation of a call that fails: none (0), Exists (1), or the
\* n-th operation of the call.
FailPoints == 0..5

\* One call of im.Accumulate(aCert) by a sequential caller.
AccumulateCall(im, aCert, failAt) ==
  \E data \in {CleanupData(cacheData, cacheExp, now)} :
  \E r \in {Accumulate(data, im, aCert, failAt)} :
     /\ cacheData' = r.data
     /\ cacheExp' = CleanupExpirations(cacheExp, now)
     /\ lastAcc' = [called |-> TRUE, im |-> im, cert |-> aCert,
                    seenBefore |-> r.seenBefore, err |-> r.err, crlErr |-> r.crlErr,
                    existsErr |-> (failAt = 1),
                    existed |-> IssuersKey(im) \in DOMAIN data,
                    emptyBefore |-> (IssuersKey(im) \notin DOMAIN data
                                      /\ CrlsKey(im) \notin DOMAIN data),
                    priorOk |-> okAccs[im],
                    again |-> (lastAcc.called /\ ~lastAcc.err /\ lastAcc.im = im
                                /\ lastAcc.cert = aCert)]
     /\ okAccs' = IF r.err THEN okAccs ELSE [okAccs EXCEPT ![im] = Min(@ + 1, 2)]
     /\ UNCHANGED <<now, beVars, meta, workerVars, historyVars, calls, followerVars,
                    backendVars, stream, toolVars>>

\* The calls made: every certificate with every failure on the shard of
\* expiration date 1, and the certificate with the mixed list, without a
\* failure, on the other shard.
MetaCalls ==
  {<<im, aCert, failAt>> \in MetaHandles \X MetaCerts \X FailPoints :
     im.expDate = 1
       \/ (failAt = 0 /\ aCert.crls = <<CrlHttpA, CrlLdapB, CrlHttpsC, CrlHttpA>>)}

NextMeta ==
  \E call \in MetaCalls : AccumulateCall(call[1], call[2], call[3])

SpecMeta == Init /\ [][NextMeta]_vars

\* The number of repeated Accumulate calls compared with a single one.
MaxRepeat == 3

\* The two sets of a shard are the same in the cache contents d1 and d2.
SameSets(d1, d2, im) ==
  /\ IssuersOf(d1, im) = IssuersOf(d2, im)
  /\ CRLsOf(d1, im) = CRLsOf(d2, im)

\* n further Accumulate(c) calls on the contents data each leave the sets of
\* the shard as they are in once.
RECURSIVE StaysAfter(_, _, _, _, _)
StaysAfter(data, once, im, c, n) ==
  \/ n = 0
  \/ \A next \in {Accumulate(data, im, c, 0).data} :
       /\ SameSets(next, once, im)
       /\ StaysAfter(next, once, im, c, n - 1)

\* C12 (P5, I5): from every state of the cache, Accumulate(c) called N times
\* (N = 1..MaxRepeat) leaves the shard's issuer-DN set and CRL set with the
\* contents one call leaves.
C12_AccumulateIdempotent ==
  \A im \in MetaHandles, c \in MetaCerts :
    \A once \in {Accumulate(cacheData, im, c, 0).data} :
      StaysAfter(once, once, im, c, MaxRepeat - 1)

\* A certificate with CRLs was accumulated twice in a row on one shard.
C12_Witness ==
  /\ lastAcc.again
  /\ ~lastAcc.err
  /\ Len(lastAcc.cert.crls) > 1
  /\ Len(CRLsOf(cacheData, lastAcc.im)) > 1

\* A list in strictly increasing order of strings.Compare: sorted and
\* without duplicates.
StrictlySorted(list) ==
  \A n \in 1..(Len(list) - 1) : Compare(list[n], list[n + 1]) < 0

\* A distribution point that is an http or https URL: cut of its white space
\* it parses, with one of the two schemes.
IsHttpUrl(dp) ==
  LET u == ParseURL(TrimSpace(dp))
  IN u.ok /\ u.scheme \in {SchemeHttp, SchemeHttps}

\* The text url.Parse and URL.String() give for a distribution point.
Normalised(dp) == URLString(ParseURL(TrimSpace(dp)))

\* The last call was a successful Accumulate on a shard with neither key.
FirstOnEmpty == lastAcc.called /\ ~lastAcc.err /\ lastAcc.emptyBefore

\* C13 as stated (E3): after Accumulate(cert) on an empty shard, CRLs() is
\* sorted, without duplicates, and holds exactly the entries of
\* cert.CRLDistributionPoints that are http or https URLs.
C13_CrlFiltering ==
  FirstOnEmpty =>
    LET crls == CRLsOf(cacheData, lastAcc.im)
    IN /\ StrictlySorted(crls)
       /\ Range(crls) = {dp \in Range(lastAcc.cert.crls) : IsHttpUrl(dp)}

\* C13 (E3), amended: after Accumulate(cert) on an empty shard, CRLs() is
\* sorted, without duplicates, and holds exactly the normalised text
\* (white space cut, scheme in lower case) of the entries that parse as http
\* or https URLs; entries of other schemes or that do not parse are dropped
\* wherever they stand, and [http://a, ldap://b, https://c, http://a] gives
\* [http://a, https://c].
C13_CrlFilteringNormalised ==
  FirstOnEmpty =>
    LET crls == CRLsOf(cacheData, lastAcc.im)
    IN /\ StrictlySorted(crls)
       /\ Range(crls) = {Normalised(dp) : dp \in {d \in Range(lastAcc.cert.crls) : IsHttpUrl(d)}}
       /\ (lastAcc.cert.crls = <<CrlHttpA, CrlLdapB, CrlHttpsC, CrlHttpA>>
             => crls = <<CrlHttpA, CrlHttpsC>>)

\* The certificate with the mixed list was accumulated on an empty shard.
C13_Witness ==
  /\ FirstOnEmpty
  /\ lastAcc.cert.crls = <<CrlHttpA, CrlLdapB, CrlHttpsC, CrlHttpA>>
  /\ CRLsOf(cacheData, lastAcc.im) = <<CrlHttpA, CrlHttpsC>>

\* C14: Accumulate returns seenBefore equal to whether the shard's issuers
\* key existed before the call (when its Exists call succeeds); the first
\* successful Accumulate on a shard returns false, every later Accumulate
\* on that shard returns true, and an Accumulate that fails on a CRL insert
\* does not create the issuers key.
C14_ShardFirstSignal ==
  lastAcc.called =>
    /\ (~lastAcc.existsErr => lastAcc.seenBefore = lastAcc.existed)
    /\ (~lastAcc.err /\ lastAcc.priorOk = 0 => ~lastAcc.seenBefore)
    /\ (~lastAcc.existsErr /\ lastAcc.priorOk > 0 => lastAcc.seenBefore)
    /\ (lastAcc.crlErr /\ ~lastAcc.existed
          => ~Exists(cacheData, IssuersKey(lastAcc.im)))

\* The second successful Accumulate on a shard returned true, on a shard
\* where an earlier call had failed on a CRL insert or not.
C14_Witness ==
  /\ lastAcc.called
  /\ ~lastAcc.err
  /\ lastAcc.priorOk = 1
  /\ lastAcc.seenBefore
  /\ okAccs[lastAcc.im] = 2

\* ------------------------------------------------------------------------
\* FirestoreBackend
\* ------------------------------------------------------------------------
\* The path of a PEM document: ct/<expDate>/issuer/<issuerID>/certs/<serialID>.
FsPemPath(serial, expDate, issuer) ==
  <<"ct", expDate, "issuer", issuer, "certs", SerialID(serial)>>

\* logNameToId: the base64 of the URL's SHA-256 digest, taken to be distinct
\* for distinct URLs.
LogNameToId(logURL) == <<"sha256", logURL>>

FsLogPath(logURL) == <<"logs", LogNameToId(logURL)>>

\* DocumentRef.Create: the document is written unless the path has one.
FsCreate(docs, path, doc) ==
  IF path \in DOMAIN docs
    THEN [docs |-> docs, code |-> "AlreadyExists"]
    ELSE [docs |-> [q \in DOMAIN docs \cup {path} |-> IF q = path THEN doc ELSE docs[q]],
          code |-> "OK"]

\* DocumentRef.Set: the document is written, over the one the path has.
FsSet(docs, path, doc) ==
  [q \in DOMAIN docs \cup {path} |-> IF q = path THEN doc ELSE docs[q]]

\* FirestoreBackend.StoreCertificatePEM: Create, with AlreadyExists counted as
\* a collision and returned as nil; another error (fault) is returned.
FsStoreCertificatePEM(docs, serial, expDate, issuer, b, fault) ==
  IF fault # "none" THEN [docs |-> docs, err |-> TRUE]
  ELSE LET r == FsCreate(docs, FsPemPath(serial, expDate, issuer),
                         [type |-> "PEM", data |-> b])
       IN [docs |-> r.docs, err |-> FALSE]

\* FirestoreBackend.LoadCertificatePEM: an error of Get (NotFound for a path
\* without a document, or fault) is returned with an empty slice.
FsLoadCertificatePEM(docs, serial, expDate, issuer, fault) ==
  IF fault # "none" \/ FsPemPath(serial, expDate, issuer) \notin DOMAIN docs
    THEN [data |-> <<>>, err |-> TRUE]
    ELSE [data |-> docs[FsPemPath(serial, expDate, issuer)].data, err |-> FALSE]

\* FirestoreBackend.ListSerialsForExpirationDateAndIssuer: the IDs of the
\* documents of the shard's certs collection.
FsSerialIDs(docs, expDate, issuer) ==
  {q[6] : q \in {d \in DOMAIN docs :
                   Len(d) = 6 /\ d[1] = "ct" /\ d[2] = expDate /\ d[4] = issuer}}

\* ------------------------------------------------------------------------
\* The storage backends called directly: certificate PEMs
\* ------------------------------------------------------------------------
\* The StoreCertificatePEM calls made per triple.
MaxWrites == 2

\* The errors injected into a Firestore call: none, or one that is neither
\* NotFound nor AlreadyExists.
Faults == {"none", "unavailable"}

\* StoreCertificatePEM(serial, expDate, issuer, b) on each backend.
BackendStorePEM(t, b, fault) ==
  /\ Len(mockWrites[t]) < MaxWrites
  /\ \E r \in {FsStoreCertificatePEM(fsDocs, t[1], t[2], t[3], b, fault)} :
       /\ beStore' = StorePEMDoc(beStore, t[1], t[2], t[3], b)
       /\ beE2S' = StorePEMSerials(beE2S, t[1], t[2], t[3])
       /\ fsDocs' = r.docs
       /\ mockWrites' = [mockWrites EXCEPT ![t] = Append(@, b)]
       /\ fsWrites' = [fsWrites EXCEPT ![t] = IF r.err THEN @ ELSE Append(@, b)]
       /\ lastOp' = [op |-> "StorePEM", key |-> t, fault |-> fault,
                     had |-> PemKey(t[2], t[3], t[1]) \in DOMAIN beStore,
                     mock |-> [data |-> b, err |-> FALSE],
                     fs |-> [data |-> b, err |-> r.err]]
  /\ UNCHANGED <<cacheVars, now, beE2I, meta, workerVars, historyVars, calls, followerVars,
                 metaVars, lastLog, stream, toolVars>>

\* LoadCertificatePEM(serial, expDate, issuer) on each backend.
BackendLoadPEM(t, fault) ==
  /\ lastOp' = [op |-> "LoadPEM", key |-> t, fault |-> fault,
                had |-> PemKey(t[2], t[3], t[1]) \in DOMAIN beStore,
                mock |-> LoadCertificatePEM(beStore, t[1], t[2], t[3]),
                fs |-> FsLoadCertificatePEM(fsDocs, t[1], t[2], t[3], fault)]
  /\ UNCHANGED <<cacheVars, now, beVars, meta, workerVars, historyVars, calls, followerVars,
                 metaVars, fsDocs, mockWrites, fsWrites, lastLog, stream, toolVars>>

NextPem ==
  \/ \E t \in PemTriples, b \in {PemX, PemY}, fault \in Faults : BackendStorePEM(t, b, fault)
  \/ \E t \in PemTriples, fault \in Faults : BackendLoadPEM(t, fault)

SpecPem == Init /\ [][NextPem]_vars

\* What a caller can observe of a triple's shard: the loaded bytes and the
\* enumeration of the shard's serials.
MockObservable(store, e2s, t) ==
  <<LoadCertificatePEM(store, t[1], t[2], t[3]), ListSerials(e2s, t[2], t[3])>>

FsObservable(docs, t) ==
  <<FsLoadCertificatePEM(docs, t[1], t[2], t[3], "none"), FsSerialIDs(docs, t[2], t[3])>>

\* C15: in every backend a StoreCertificatePEM for a triple already stored
\* with the same bytes returns nil and leaves the loaded bytes and the
\* enumeration of the shard's serials (one occurrence of the serial) as they
\* were.
C15_PemIdempotentCreate ==
  [][(lastOp'.op = "StorePEM" /\ lastOp'.fault = "none") =>
       LET t == lastOp'.key
           b == lastOp'.mock.data
       IN /\ (LoadCertificatePEM(beStore, t[1], t[2], t[3]) = [data |-> b, err |-> FALSE]
               => /\ ~lastOp'.mock.err
                  /\ MockObservable(beStore', beE2S', t) = MockObservable(beStore, beE2S, t)
                  /\ Occurrences(ListSerials(beE2S', t[2], t[3]), t[1]) = 1)
          /\ (FsLoadCertificatePEM(fsDocs, t[1], t[2], t[3], "none") = [data |-> b, err |-> FALSE]
               => /\ ~lastOp'.fs.err
                  /\ FsObservable(fsDocs', t) = FsObservable(fsDocs, t))]_vars

\* C16: in each backend, a triple with one successful StoreCertificatePEM of
\* bytes b loads as exactly b without an error, whatever was stored under
\* other triples, and a triple never stored loads as a not-found error and
\* no data.
C16_PemRoundTrip ==
  \A t \in PemTriples :
    /\ (Len(mockWrites[t]) = 1 =>
          LoadCertificatePEM(beStore, t[1], t[2], t[3])
            = [data |-> mockWrites[t][1], err |-> FALSE])
    /\ (Len(mockWrites[t]) = 0 =>
          LoadCertificatePEM(beStore, t[1], t[2], t[3]) = [data |-> <<>>, err |-> TRUE])
    /\ (Len(fsWrites[t]) = 1 =>
          FsLoadCertificatePEM(fsDocs, t[1], t[2], t[3], "none")
            = [data |-> fsWrites[t][1], err |-> FALSE])
    /\ (Len(fsWrites[t]) = 0 =>
          FsLoadCertificatePEM(fsDocs, t[1], t[2], t[3], "none")
            = [data |-> <<>>, err |-> TRUE])
    /\ (lastOp.op = "LoadPEM" /\ lastOp.key = t =>
          /\ lastOp.mock = LoadCertificatePEM(beStore, t[1], t[2], t[3])
          /\ (lastOp.fault = "none" =>
                lastOp.fs = FsLoadCertificatePEM(fsDocs, t[1], t[2], t[3], "none"))
          /\ (lastOp.fault # "none" => lastOp.fs = [data |-> <<>>, err |-> TRUE]))

\* A triple stored once was loaded from both backends as the bytes stored,
\* with other bytes stored under the other triple.
C16_Witness ==
  /\ lastOp.op = "LoadPEM"
  /\ lastOp.fault = "none"
  /\ lastOp.key = <<SerialOne, 1, IssuerA>>
  /\ lastOp.mock = [data |-> PemX, err |-> FALSE]
  /\ lastOp.fs = [data |-> PemX, err |-> FALSE]
  /\ mockWrites[<<SerialOne, 1, IssuerA>>] = <<PemX>>
  /\ fsWrites[<<SerialZeroOne, 1, IssuerA>>] = <<PemY>>

\* ------------------------------------------------------------------------
\* The storage backends called directly: log checkpoints
\* ------------------------------------------------------------------------
\* FirestoreBackend.StoreLogState: Set of the document logs/<id> with the
\* fields shortUrl, data (MaxEntry) and unixTime; an error (fault) is returned.
FsStoreLogState(docs, log, fault) ==
  IF fault # "none" THEN [docs |-> docs, err |-> TRUE]
  ELSE [docs |-> FsSet(docs, FsLogPath(log.ShortURL),
                       [type |-> "LogState", shortUrl |-> log.ShortURL,
                        data |-> log.MaxEntry, unixTime |-> log.LastEntryTime]),
        err |-> FALSE]

\* FirestoreBackend.LoadLogState: NotFound gives a new CertificateLog with
\* ShortURL set and no error; another error of Get (fault) gives nil and the
\* error; otherwise the checkpoint is built from the document's fields.
FsLoadLogState(docs, logURL, fault) ==
  IF fault # "none" THEN [data |-> NoLog, err |-> TRUE]
  ELSE IF FsLogPath(logURL) \notin DOMAIN docs
    THEN [data |-> NewLog(logURL), err |-> FALSE]
  ELSE LET doc == docs[FsLogPath(logURL)]
       IN [data |-> [ShortURL |-> doc.shortUrl, MaxEntry |-> doc.data,
                     LastEntryTime |-> doc.unixTime],
           err |-> FALSE]

\* The checkpoints stored: each log with MaxEntry 5 or 12.
LogStates ==
  {[ShortURL |-> u, MaxEntry |-> n, LastEntryTime |-> 0] : u \in LogURLs, n \in {5, 12}}

\* StoreLogState(log) on each backend.
BackendStoreLog(log, fault) ==
  \E r \in {FsStoreLogState(fsDocs, log, fault)} :
    /\ beStore' = StoreLogState(beStore, log)
    /\ fsDocs' = r.docs
    /\ lastLog' = [lastLog EXCEPT !["mock"][log.ShortURL] = log,
                                  !["fs"][log.ShortURL] = IF r.err THEN @ ELSE log]
    /\ lastOp' = [op |-> "StoreLog", key |-> log.ShortURL, fault |-> fault,
                  had |-> LogStateKey(log.ShortURL) \in DOMAIN beStore,
                  mock |-> [data |-> log, err |-> FALSE],
                  fs |-> [data |-> log, err |-> r.err]]
    /\ UNCHANGED <<cacheVars, now, beE2I, beE2S, meta, workerVars, historyVars, calls,
                   followerVars, metaVars, mockWrites, fsWrites, stream, toolVars>>

\* LoadLogState(logURL) on each backend.
BackendLoadLog(logURL, fault) ==
  /\ lastOp' = [op |-> "LoadLog", key |-> logURL, fault |-> fault,
                had |-> LogStateKey(logURL) \in DOMAIN beStore,
                mock |-> [data |-> LoadLogState(beStore, logURL), err |-> FALSE],
                fs |-> FsLoadLogState(fsDocs, logURL, fault)]
  /\ UNCHANGED <<cacheVars, now, beVars, meta, workerVars, historyVars, calls, followerVars,
                 metaVars, fsDocs, mockWrites, fsWrites, lastLog, stream, toolVars>>

NextLogState ==
  \/ \E log \in LogStates, fault \in Faults : BackendStoreLog(log, fault)
  \/ \E u \in LogURLs, fault \in Faults : BackendLoadLog(u, fault)

SpecLogState == Init /\ [][NextLogState]_vars

\* C17: LoadLogState for a log with no stored checkpoint returns, without an
\* error, a zero-valued checkpoint whose ShortURL is the argument; no load
\* creates or modifies a stored document; another failure of the load (an
\* error of Firestore's Get other than NotFound) is returned as an error with
\* no checkpoint.
C17_LoadAbsentLogState ==
  [][lastOp'.op = "LoadLog" =>
       LET u == lastOp'.key
           zero == [ShortURL |-> u, MaxEntry |-> 0, LastEntryTime |-> 0]
       IN /\ beStore' = beStore
          /\ fsDocs' = fsDocs
          /\ (lastLog.mock[u] = NoLog => lastOp'.mock = [data |-> zero, err |-> FALSE])
          /\ (lastOp'.fault = "none" /\ lastLog.fs[u] = NoLog
                => lastOp'.fs = [data |-> zero, err |-> FALSE])
          /\ (lastOp'.fault # "none" => lastOp'.fs = [data |-> NoLog, err |-> TRUE])]_vars

\* The checkpoint of a log without one was loaded from both backends, with a
\* checkpoint stored for the other log.
C17_Witness ==
  /\ lastOp.op = "LoadLog"
  /\ lastOp.key = LogURL2
  /\ lastOp.fault = "none"
  /\ lastLog.mock[LogURL2] = NoLog
  /\ lastLog.fs[LogURL2] = NoLog
  /\ lastLog.mock[<<108>>] # NoLog
  /\ lastOp.mock.data.ShortURL = LogURL2
  /\ lastOp.fs.data.ShortURL = LogURL2
  /\ LogStateKey(LogURL2) \notin DOMAIN beStore
  /\ FsLogPath(LogURL2) \notin DOMAIN fsDocs

\* C18: after any sequence of StoreLogState calls for the two logs, in each
\* backend LoadLogState(u) returns the ShortURL and MaxEntry of the checkpoint
\* most recently stored for u (the zero-valued one when none was), whatever
\* was stored for the other log.
C18_LogStateRoundTrip ==
  \A u \in LogURLs :
    LET zero == [ShortURL |-> u, MaxEntry |-> 0, LastEntryTime |-> 0]
        rm == LoadLogState(beStore, u)
        rf == FsLoadLogState(fsDocs, u, "none")
    IN /\ (lastLog.mock[u] = NoLog => rm = zero)
       /\ (lastLog.mock[u] # NoLog =>
             /\ rm.ShortURL = u
             /\ rm.ShortURL = lastLog.mock[u].ShortURL
             /\ rm.MaxEntry = lastLog.mock[u].MaxEntry)
       /\ ~rf.err
       /\ (lastLog.fs[u] = NoLog => rf.data = zero)
       /\ (lastLog.fs[u] # NoLog =>
             /\ rf.data.ShortURL = u
             /\ rf.data.ShortURL = lastLog.fs[u].ShortURL
             /\ rf.data.MaxEntry = lastLog.fs[u].MaxEntry)

\* A checkpoint was stored over an earlier one of the same log and loads as
\* stored, with another MaxEntry stored for the other log.
C18_Witness ==
  /\ lastOp.op = "StoreLog"
  /\ lastOp.key = LogURL2
  /\ lastOp.had
  /\ ~lastOp.fs.err
  /\ lastOp.mock.data.MaxEntry = 12
  /\ LoadLogState(beStore, LogURL2).MaxEntry = 12
  /\ FsLoadLogState(fsDocs, LogURL2, "none").data.MaxEntry = 12
  /\ lastLog.mock[<<108>>] # NoLog
  /\ LoadLogState(beStore, <<108>>).MaxEntry = 5

\* ------------------------------------------------------------------------
\* StreamSerialsForExpirationDateAndIssuer
\* ------------------------------------------------------------------------
\* The serials of the streamed shard, the page limits of the query (4096 in
\* the code) and the DeadlineExceeded errors injected into one stream.
MaxSerials == 3
PageLimit == 2
MaxErrors == 2

\* The SortedInsert calls of one process on its Redis cache.
MaxInserts == 2

\* The longest serial encoded and decoded, in bytes.
MaxSerialLen == 6

\* The longest list given to Merge and IsSorted.
MaxListLen == 3

\* The Store calls made with a failing operation.
MaxFaultStores == 2

\* The shard streamed and the serials stored in it: one byte each.
StreamExpDate == 1
StreamIssuer == IssuerA
StreamSerials == {<<n>> : n \in 1..MaxSerials}

\* The documents of a collection in the order a query without OrderBy
\* returns them: by document ID.
RECURSIVE SortIDs(_)
SortIDs(ids) ==
  IF ids = {} THEN <<>>
  ELSE LET first == CHOOSE x \in ids : \A y \in ids : Compare(x, y) <= 0
       IN <<first>> \o SortIDs(ids \ {first})

\* query.Offset(offset).Limit(limit).Documents: the IDs of one page.
FsPage(docs, offset, limit) ==
  LET all == SortIDs(FsSerialIDs(docs, StreamExpDate, StreamIssuer))
  IN SubSeq(all, offset + 1, Min(offset + limit, Len(all)))

\* A faulty offset update: the offset stays where the query started.
OffsetSame(offset, count) == offset

\* offset += count
OffsetAfter(offset, count) == offset + count

\* StoreCertificatePEM of a serial not yet in the shard, on both backends,
\* before the stream is opened.
StreamStore(sn) ==
  /\ stream.pc = "idle"
  /\ PemKey(StreamExpDate, StreamIssuer, sn) \notin DOMAIN beStore
  /\ beStore' = StorePEMDoc(beStore, sn, StreamExpDate, StreamIssuer, PemX)
  /\ beE2S' = StorePEMSerials(beE2S, sn, StreamExpDate, StreamIssuer)
  /\ fsDocs' = FsStoreCertificatePEM(fsDocs, sn, StreamExpDate, StreamIssuer, PemX, "none").docs
  /\ UNCHANGED <<cacheVars, now, beE2I, meta, workerVars, historyVars, calls, followerVars,
                 metaVars, lastOp, mockWrites, fsWrites, lastLog, stream, toolVars>>

\* Document IDs that are not the base64 of a serial: "!" and "z".
InvalidIDs == {<<33>>, <<122>>}

\* Another writer puts a PEM document whose ID is no serial ID into the
\* streamed shard of Firestore, before the stream is opened.
StreamStoreInvalid(id) ==
  /\ stream.pc = "idle"
  /\ <<"ct", StreamExpDate, "issuer", StreamIssuer, "certs", id>> \notin DOMAIN fsDocs
  /\ fsDocs' = FsCreate(fsDocs, <<"ct", StreamExpDate, "issuer", StreamIssuer, "certs", id>>,
                        [type |-> "PEM", data |-> PemX]).docs
  /\ UNCHANGED <<cacheVars, now, beVars, meta, workerVars, historyVars, calls, followerVars,
                 metaVars, lastOp, mockWrites, fsWrites, lastLog, stream, toolVars>>

\* FirestoreBackend.StreamSerialsForExpirationDateAndIssuer: the channel is
\* made, the goroutine started and the channel returned.
FsStreamOpen(limit) ==
  /\ stream.pc = "idle"
  /\ stream' = [NoStream EXCEPT !.pc = "query", !.backend = "fs", !.limit = limit]
  /\ UNCHANGED <<cacheVars, now, beVars, meta, workerVars, historyVars, calls, followerVars,
                 metaVars, backendVars, toolVars>>

\* The goroutine's loop: processSerialDocumentQuery on query.Offset(offset).
FsStreamQuery ==
  /\ stream.pc = "query"
  /\ stream' = [stream EXCEPT !.pc = "iter", !.count = 0, !.pos = 0]
  /\ UNCHANGED <<cacheVars, now, beVars, meta, workerVars, historyVars, calls, followerVars,
                 metaVars, backendVars, toolVars>>

\* iter.Next() returns a document: its serial is sent and counted; a
\* document whose ID NewSerialFromIDString rejects is logged and passed over
\* without being counted.
FsStreamNext ==
  /\ stream.pc = "iter"
  /\ stream.ctx = "live"
  /\ stream.pos < Len(FsPage(fsDocs, stream.offset, stream.limit))
  /\ \E r \in {NewSerialFromIDString(
                  FsPage(fsDocs, stream.offset, stream.limit)[stream.pos + 1])} :
       stream' = IF r.err
                   THEN [stream EXCEPT !.pos = @ + 1]
                   ELSE [stream EXCEPT !.chan = Append(@, r.serial),
                                       !.count = @ + 1,
                                       !.pos = @ + 1]
  /\ UNCHANGED <<cacheVars, now, beVars, meta, workerVars, historyVars, calls, followerVars,
                 metaVars, backendVars, toolVars>>

\* iter.Next() returns iterator.Done: offset += count, and the goroutine
\* returns (closing the channel) when the page had no document.
FsStreamPageDone ==
  /\ stream.pc = "iter"
  /\ stream.ctx = "live"
  /\ stream.pos = Len(FsPage(fsDocs, stream.offset, stream.limit))
  /\ stream' = [stream EXCEPT
       !.offset = OffsetAfter(@, stream.count),
       !.pc = IF stream.count = 0 THEN "done" ELSE "query",
       !.closed = (stream.count = 0)]
  /\ UNCHANGED <<cacheVars, now, beVars, meta, workerVars, historyVars, calls, followerVars,
                 metaVars, backendVars, toolVars>>

\* iter.Next() returns a DeadlineExceeded error, before the first document of
\* a page, between two documents or after the last: offset += count and the
\* query is issued again.
FsStreamDeadline ==
  /\ stream.pc = "iter"
  /\ stream.ctx = "live"
  /\ stream.errors < MaxErrors
  /\ stream' = [stream EXCEPT
       !.offset = OffsetAfter(@, stream.count),
       !.pc = "query",
       !.errors = @ + 1,
       !.midPage = @ \/ (stream.count > 0
                          /\ stream.pos < Len(FsPage(fsDocs, stream.offset, stream.limit)))]
  /\ UNCHANGED <<cacheVars, now, beVars, meta, workerVars, historyVars, calls, followerVars,
                 metaVars, backendVars, toolVars>>

\* iter.Next() returns another error: the goroutine returns and its deferred
\* close(c) runs.
FsStreamFatal ==
  /\ stream.pc = "iter"
  /\ stream.ctx = "live"
  /\ stream' = [stream EXCEPT
       !.offset = OffsetAfter(@, stream.count),
       !.pc = "done",
       !.closed = TRUE,
       !.fatal = TRUE]
  /\ UNCHANGED <<cacheVars, now, beVars, meta, workerVars, historyVars, calls, followerVars,
                 metaVars, backendVars, toolVars>>

\* MockBackend.StreamSerialsForExpirationDateAndIssuer: a channel with room
\* for every serial of the list is made, the serials are sent, and the
\* channel is returned.
MockStreamOpen ==
  /\ stream.pc = "idle"
  /\ stream' = [NoStream EXCEPT
       !.pc = "returned",
       !.backend = "mock",
       !.chan = ListSerials(beE2S, StreamExpDate, StreamIssuer)]
  /\ UNCHANGED <<cacheVars, now, beVars, meta, workerVars, historyVars, calls, followerVars,
                 metaVars, backendVars, toolVars>>

\* for serial := range serialChan: the reader receives the next serial.
StreamReceive ==
  /\ stream.pc # "idle"
  /\ ~stream.readerDone
  /\ stream.chan # <<>>
  /\ stream' = [stream EXCEPT !.got = Append(@, Head(stream.chan)), !.chan = Tail(@)]
  /\ UNCHANGED <<cacheVars, now, beVars, meta, workerVars, historyVars, calls, followerVars,
                 metaVars, backendVars, toolVars>>

\* The range loop ends: the channel is closed and empty.
StreamReaderExit ==
  /\ stream.pc # "idle"
  /\ ~stream.readerDone
  /\ stream.chan = <<>>
  /\ stream.closed
  /\ stream' = [stream EXCEPT !.readerDone = TRUE]
  /\ UNCHANGED <<cacheVars, now, beVars, meta, workerVars, historyVars, calls, followerVars,
                 metaVars, backendVars, toolVars>>

\* db.ctx ends while the stream is active: it is cancelled, or its deadline
\* (15 minutes in reprocess-known-certs) expires.
CtxEnd(how) ==
  /\ stream.backend = "fs"
  /\ stream.pc \in {"query", "iter"}
  /\ stream.ctx = "live"
  /\ stream' = [stream EXCEPT !.ctx = how]
  /\ UNCHANGED <<cacheVars, now, beVars, meta, workerVars, historyVars, calls, followerVars,
                 metaVars, backendVars, toolVars>>

\* iter.Next() on a context that has ended returns the context's error as a
\* gRPC status: "code = Canceled" for a cancelled context, on which the
\* goroutine returns and closes, and "code = DeadlineExceeded" for an expired
\* one, which strings.Contains(err.Error(), "DeadlineExceeded") takes for a
\* retryable error: offset += count and the query is issued again.
FsStreamCtxError ==
  /\ stream.pc = "iter"
  /\ stream.ctx # "live"
  /\ stream' = [stream EXCEPT
       !.offset = OffsetAfter(@, stream.count),
       !.pc = IF stream.ctx = "cancelled" THEN "done" ELSE "query",
       !.closed = (stream.ctx = "cancelled"),
       !.fatal = (stream.ctx = "cancelled")]
  /\ UNCHANGED <<cacheVars, now, beVars, meta, workerVars, historyVars, calls, followerVars,
                 metaVars, backendVars, toolVars>>

NextStream ==
  \/ \E sn \in StreamSerials : StreamStore(sn)
  \/ \E limit \in 1..PageLimit : FsStreamOpen(limit)
  \/ FsStreamQuery
  \/ FsStreamNext
  \/ FsStreamPageDone
  \/ FsStreamDeadline
  \/ FsStreamFatal
  \/ MockStreamOpen
  \/ StreamReceive
  \/ StreamReaderExit

SpecStream == Init /\ [][NextStream]_vars

\* The steps of the producer goroutine, which the scheduler runs whenever one
\* is possible.
ProducerStep ==
  FsStreamQuery \/ FsStreamNext \/ FsStreamPageDone \/ FsStreamCtxError

NextStreamCtx ==
  \/ NextStream
  \/ \E how \in {"cancelled", "expired"} : CtxEnd(how)
  \/ FsStreamCtxError

SpecStreamCtx == Init /\ [][NextStreamCtx]_vars /\ WF_vars(ProducerStep)

\* The serials sent on the channel so far, in order.
Sent == stream.got \o stream.chan

\* The serials stored in the streamed shard.
StoredSerials ==
  {sn \in StreamSerials : FsPemPath(sn, StreamExpDate, StreamIssuer) \in DOMAIN fsDocs}

\* C19 (E6): the Firestore stream over a shard of N stored serials never
\* sends a serial twice or a serial that is not stored, and when its
\* goroutine returns without an unrecoverable error it has sent exactly the
\* N serials, each once; for every page limit and every pattern of up to
\* MaxErrors DeadlineExceeded errors, mid-page or between pages.
C19_StreamExactlyOnce ==
  stream.backend = "fs" =>
    /\ \A n \in 1..Len(Sent) : Sent[n] \in StoredSerials
    /\ \A n, k \in 1..Len(Sent) : n # k => Sent[n] # Sent[k]
    /\ stream.offset + (IF stream.pc = "iter" THEN stream.count ELSE 0) = Len(Sent)
    /\ (stream.pc = "done" /\ ~stream.fatal =>
          /\ Range(Sent) = StoredSerials
          /\ Len(Sent) = Cardinality(StoredSerials))
    /\ (stream.readerDone /\ ~stream.fatal =>
          /\ Range(stream.got) = StoredSerials
          /\ Len(stream.got) = Cardinality(StoredSerials))

\* A stream over the full shard, in pages smaller than the shard, ended
\* after errors of which one came mid-page, and the reader has every serial.
C19_Witness ==
  /\ stream.backend = "fs"
  /\ stream.readerDone
  /\ ~stream.fatal
  /\ stream.errors = MaxErrors
  /\ stream.midPage
  /\ stream.limit = PageLimit
  /\ Cardinality(StoredSerials) = MaxSerials
  /\ Len(stream.got) = MaxSerials

\* C20: in every backend, once the producer of a stream has returned, after
\* the last serial or an unrecoverable error, the channel is closed, so that
\* a reader ranging over it ends.
C20_StreamClosed ==
  stream.pc \in {"done", "returned"} => stream.closed

\* C21: once the context of an active Firestore stream is cancelled or its
\* deadline has expired, the producer goroutine eventually closes the
\* channel: it does not go on issuing queries.
C21_StreamStopsOnCancel ==
  (stream.backend = "fs" /\ stream.ctx # "live") ~> stream.closed

\* ------------------------------------------------------------------------
\* AllocateExpDateAndIssuer and the listings, called directly
\* ------------------------------------------------------------------------
\* The shards allocated by the direct calls.
AllocShards == {<<1, IssuerA>>, <<1, IssuerB>>, <<2, IssuerA>>}

\* MockBackend.AllocateExpDateAndIssuer from the slice it has read: the
\* search, the insert and db.expDateToIssuer[expDate] = issuers.
AllocateWrite(e2i, issuers, expDate, issuer) ==
  LET i == SearchIssuerFrom(issuers, issuer, 0, Len(issuers))
  IN IF i < Len(issuers) /\ issuers[i + 1] = issuer
       THEN e2i
       ELSE [d \in DOMAIN e2i \cup {expDate} |->
               IF d = expDate THEN InsertAt(issuers, i, issuer) ELSE e2i[d]]

\* FirestoreBackend.allocateExpDate: Set of the document ct/<expDate>.
FsAllocateExpDate(docs, expDate) ==
  FsSet(docs, <<"ct", expDate>>, [type |-> "ExpDate", expDate |-> expDate])

\* FirestoreBackend.allocateIssuerExpDate: Set of ct/<expDate>/issuer/<id>.
FsAllocateIssuerExpDate(docs, expDate, issuer) ==
  FsSet(docs, <<"ct", expDate, "issuer", issuer>>,
        [type |-> "Metadata", expDate |-> expDate, issuer |-> issuer])

\* FirestoreBackend.ListIssuersForExpirationDate: the issuer field of the
\* metadata documents of ct/<expDate>/issuer.
FsListIssuers(docs, expDate) ==
  {docs[d].issuer : d \in {q \in DOMAIN docs :
      Len(q) = 4 /\ q[1] = "ct" /\ q[2] = expDate /\ q[3] = "issuer"
        /\ docs[q].type = "Metadata"}}

\* FirestoreBackend.ListExpirationDates(aNotBefore): the IDs of the documents
\* of collection ct of type ExpDate; aNotBefore is not used.
FsListExpirationDates(docs, aNotBefore) ==
  {d[2] : d \in {q \in DOMAIN docs : Len(q) = 2 /\ q[1] = "ct" /\ docs[q].type = "ExpDate"}}

\* A time.Time, by the day of its instant in UTC and the day its fields
\* Year(), Month(), Day() give in its own location.
NotBefores ==
  {t \in [utcDay : 1..2, localDay : 1..3] : t.localDay - t.utcDay \in {-1, 0, 1}}

\* MockBackend.ListExpirationDates(aNotBefore): the keys not before
\* time.Date(aNotBefore.Year(), aNotBefore.Month(), aNotBefore.Day(), 0, 0,
\* 0, 0, time.UTC).
MockListExpirationDates(e2i, aNotBefore) ==
  {key \in DOMAIN e2i : ~(key < aNotBefore.localDay)}

\* A worker calls AllocateExpDateAndIssuer(expDate, issuer) on each backend;
\* in MockBackend it first reads issuers, ok := db.expDateToIssuer[expDate].
AllocBegin(w, shard) ==
  /\ ~alloc.crashed
  /\ alloc.pc[w] = "idle"
  /\ alloc' = [alloc EXCEPT
       !.pc[w] = "mockWrite",
       !.arg[w] = shard,
       !.issuers[w] = IF shard[1] \in DOMAIN beE2I THEN beE2I[shard[1]] ELSE <<>>]
  /\ UNCHANGED <<cacheVars, now, beVars, meta, workerVars, historyVars, calls, followerVars,
                 metaVars, backendVars, stream, allocRest>>

\* MockBackend.AllocateExpDateAndIssuer, the rest: search, insert, write back.
AllocMockWrite(w) ==
  /\ alloc.pc[w] = "mockWrite"
  /\ beE2I' = AllocateWrite(beE2I, alloc.issuers[w], alloc.arg[w][1], alloc.arg[w][2])
  /\ alloc' = [alloc EXCEPT !.pc[w] = "fsDate"]
  /\ UNCHANGED <<cacheVars, now, beE2S, beStore, meta, workerVars, historyVars, calls,
                 followerVars, metaVars, backendVars, stream, allocRest>>

\* The map is read and written by two goroutines without synchronisation:
\* the runtime may stop the process ("concurrent map writes").
AllocMockRace ==
  /\ \E w1, w2 \in Workers : w1 # w2 /\ alloc.pc[w1] = "mockWrite" /\ alloc.pc[w2] = "mockWrite"
  /\ alloc' = [alloc EXCEPT !.pc = [w \in Workers |-> "dead"], !.crashed = TRUE]
  /\ UNCHANGED <<cacheVars, now, beVars, meta, workerVars, historyVars, calls, followerVars,
                 metaVars, backendVars, stream, allocRest>>

\* FirestoreBackend.AllocateExpDateAndIssuer: allocateExpDate.
AllocFsDate(w) ==
  /\ alloc.pc[w] = "fsDate"
  /\ fsDocs' = FsAllocateExpDate(fsDocs, alloc.arg[w][1])
  /\ alloc' = [alloc EXCEPT !.pc[w] = "fsIssuer"]
  /\ UNCHANGED <<cacheVars, now, beVars, meta, workerVars, historyVars, calls, followerVars,
                 metaVars, lastOp, mockWrites, fsWrites, lastLog, stream, allocRest>>

\* FirestoreBackend.AllocateExpDateAndIssuer: allocateIssuerExpDate; the
\* calls on both backends have returned nil.
AllocFsIssuer(w) ==
  /\ alloc.pc[w] = "fsIssuer"
  /\ fsDocs' = FsAllocateIssuerExpDate(fsDocs, alloc.arg[w][1], alloc.arg[w][2])
  /\ alloc' = [alloc EXCEPT !.pc[w] = "idle", !.returned = @ \cup {alloc.arg[w]}]
  /\ UNCHANGED <<cacheVars, now, beVars, meta, workerVars, historyVars, calls, followerVars,
                 metaVars, lastOp, mockWrites, fsWrites, lastLog, stream, allocRest>>

NextAlloc ==
  \/ \E w \in Workers, shard \in AllocShards : AllocBegin(w, shard)
  \/ \E w \in Workers : AllocMockWrite(w) \/ AllocFsDate(w) \/ AllocFsIssuer(w)
  \/ AllocMockRace

SpecAlloc == Init /\ [][NextAlloc]_vars

\* No allocation call is in progress.
AllocQuiet == \A w \in Workers : alloc.pc[w] = "idle"

\* The expiration dates allocated by the calls that returned.
AllocatedDates == {shard[1] : shard \in alloc.returned}

\* C22: with no allocation in progress, ListExpirationDates(notBefore) of
\* each backend returns exactly the allocated dates d with d >= the UTC day
\* of notBefore.
C22_ListExpirationDates ==
  AllocQuiet =>
    \A nb \in NotBefores :
      /\ MockListExpirationDates(beE2I, nb) = {d \in AllocatedDates : d >= nb.utcDay}
      /\ FsListExpirationDates(fsDocs, nb) = {d \in AllocatedDates : d >= nb.utcDay}

\* C23: after any interleaving of AllocateExpDateAndIssuer calls of
\* concurrent workers, ListIssuersForExpirationDate(e) of each backend holds
\* every allocated issuer of e exactly once.
C23_AllocateConcurrent ==
  \A shard \in alloc.returned :
    /\ Occurrences(ListIssuersForExpirationDate(beE2I, shard[1]), shard[2]) = 1
    /\ shard[2] \in FsListIssuers(fsDocs, shard[1])

\* ------------------------------------------------------------------------
\* GetConfiguredStorage and RedisCache
\* ------------------------------------------------------------------------
\* Values of CertPath and GoogleProjectId: unset, "", "/p" and "proj".
CertPaths == {Nil, <<>>, <<47, 112>>}
ProjectIds == {Nil, <<>>, <<112, 114, 111, 106>>}

\* Values of RedisTimeout: "2s" and "abc".
RedisTimeouts == {<<50, 115>>, <<97, 98, 99>>}

\* time.ParseDuration on a string of the form <digits><unit>: an error if
\* not a number followed by one of the units s, m, h.
ParseDurationOk(s) ==
  /\ Len(s) >= 2
  /\ \A n \in 1..(Len(s) - 1) : s[n] \in 48..57
  /\ s[Len(s)] \in {115, 109, 104}

\* strings.Contains and strings.HasPrefix.
Contains(s, sub) ==
  \E k \in 0..(Len(s) - Len(sub)) : SubSeq(s, k + 1, k + Len(sub)) = sub

\* A faulty prefix test that matches nothing.
HasPrefixNever(s, prefix) == FALSE

HasPrefix(s, prefix) == Len(s) >= Len(prefix) /\ SubSeq(s, 1, Len(prefix)) = prefix

\* "maxmemory_policy:noeviction" and "OOM".
PolicyNoEviction ==
  <<109, 97, 120, 109, 101, 109, 111, 114, 121, 95, 112, 111, 108, 105, 99, 121, 58,
    110, 111, 101, 118, 105, 99, 116, 105, 111, 110>>
OOMPrefix == <<79, 79, 77>>

\* Replies of INFO memory: "maxmemory:0\r\n" followed by the policy line with
\* noeviction or allkeys-lru (NoReply when the command fails).
InfoHead == <<109, 97, 120, 109, 101, 109, 111, 114, 121, 58, 48, 13, 10>>
InfoNoEviction == InfoHead \o PolicyNoEviction \o <<13, 10>>
InfoAllKeysLru ==
  InfoHead \o <<109, 97, 120, 109, 101, 109, 111, 114, 121, 95, 112, 111, 108, 105, 99, 121,
                58, 97, 108, 108, 107, 101, 121, 115, 45, 108, 114, 117, 13, 10>>
Infos == {InfoNoEviction, InfoAllKeysLru, NoReply}

\* Errors of ZADD: "OOM command not allowed" and "i/o timeout".
ErrOOM ==
  <<79, 79, 77, 32, 99, 111, 109, 109, 97, 110, 100, 32, 110, 111, 116, 32, 97, 108, 108,
    111, 119, 101, 100>>
ErrTimeout == <<105, 47, 111, 32, 116, 105, 109, 101, 111, 117, 116>>
ZAddReplies == {NoErr, ErrOOM, ErrTimeout}

\* A Redis server as the client sees it: whether PING succeeds, and the reply
\* of INFO memory.
Servers == [ping : BOOLEAN, info : Infos]

\* RedisCache.MemoryPolicyCorrect: nil (TRUE) or an error.
MemoryPolicyCorrect(server) ==
  server.info # NoReply /\ Contains(server.info, PolicyNoEviction)

\* NewRedisCache: an error when the ping fails; otherwise the cache, with a
\* warning logged when MemoryPolicyCorrect returned an error.
NewRedisCache(server) ==
  IF ~server.ping
    THEN [cache |-> FALSE, err |-> TRUE, warned |-> FALSE]
    ELSE [cache |-> TRUE, err |-> FALSE, warned |-> ~MemoryPolicyCorrect(server)]

\* ZADD key 0 entry on the server, with the error the command ends in: the
\* number of members added and the members after.
ZAdd(members, entry, err) ==
  IF err # NoErr THEN [added |-> 0, members |-> members, err |-> err]
  ELSE [added |-> IF entry \in members THEN 0 ELSE 1,
        members |-> members \cup {entry}, err |-> NoErr]

\* RedisCache.SortedInsert: glog.Fatalf on an error starting with "OOM",
\* otherwise return added == 1, err.
RedisSortedInsert(members, entry, err) ==
  LET ir == ZAdd(members, entry, err)
  IN [fatal   |-> ir.err # NoErr /\ HasPrefix(ir.err, OOMPrefix),
      result  |-> ir.added = 1,
      err     |-> ir.err,
      members |-> ir.members]

hasLocalDiskConfig == boot.certPath # Nil /\ Len(boot.certPath) > 0
hasGoogleConfig == boot.projectId # Nil /\ Len(boot.projectId) > 0

\* glog.Fatal: the process exits with status 255.
Fatal(b) == [b EXCEPT !.pc = "exited", !.exit = 255]

\* The process is started with a configuration, against a Redis server and
\* a Firestore project that can or cannot be opened.
StartupBegin(certPath, projectId, redisTimeout, server, firestoreOk) ==
  /\ boot.pc = "start"
  /\ boot' = [boot EXCEPT !.pc = "checkBoth", !.certPath = certPath,
                          !.projectId = projectId, !.redisTimeout = redisTimeout,
                          !.server = server, !.firestoreOk = firestoreOk]
  /\ UNCHANGED <<baseVars, bootRest>>

\* if hasLocalDiskConfig && hasGoogleConfig { glog.Fatal(...) }
StartupCheckBoth ==
  /\ boot.pc = "checkBoth"
  /\ boot' = IF hasLocalDiskConfig /\ hasGoogleConfig
               THEN Fatal(boot) ELSE [boot EXCEPT !.pc = "parseTimeout"]
  /\ UNCHANGED <<baseVars, bootRest>>

\* time.ParseDuration(*ctconfig.RedisTimeout)
StartupParseTimeout ==
  /\ boot.pc = "parseTimeout"
  /\ boot' = IF ParseDurationOk(boot.redisTimeout)
               THEN [boot EXCEPT !.pc = "redis"] ELSE Fatal(boot)
  /\ UNCHANGED <<baseVars, bootRest>>

\* remoteCache, err := storage.NewRedisCache(...)
StartupRedis ==
  /\ boot.pc = "redis"
  /\ \E r \in {NewRedisCache(boot.server)} :
       \E b \in {[boot EXCEPT !.connects = @ \cup {"redis"}, !.cache = r.cache,
                              !.warned = r.warned]} :
         boot' = IF r.err THEN Fatal(b) ELSE [b EXCEPT !.pc = "localDisk"]
  /\ UNCHANGED <<baseVars, bootRest>>

\* if hasLocalDiskConfig { glog.Fatalf("Local Disk Backend currently disabled") }
StartupLocalDisk ==
  /\ boot.pc = "localDisk"
  /\ boot' = IF hasLocalDiskConfig THEN Fatal(boot) ELSE [boot EXCEPT !.pc = "google"]
  /\ UNCHANGED <<baseVars, bootRest>>

\* if hasGoogleConfig { NewFirestoreBackend; NewFilesystemDatabase }
StartupGoogle ==
  /\ boot.pc = "google"
  /\ boot' = IF ~hasGoogleConfig THEN [boot EXCEPT !.pc = "checkDB"]
             ELSE IF ~boot.firestoreOk
               THEN Fatal([boot EXCEPT !.connects = @ \cup {"firestore"}])
               ELSE [boot EXCEPT !.connects = @ \cup {"firestore"}, !.backend = TRUE,
                                 !.db = TRUE, !.pc = "checkDB"]
  /\ UNCHANGED <<baseVars, bootRest>>

\* if storageDB == nil { ctconfig.Usage(); os.Exit(2) }; return
StartupReturn ==
  /\ boot.pc = "checkDB"
  /\ boot' = IF ~boot.db THEN [boot EXCEPT !.pc = "exited", !.usage = TRUE, !.exit = 2]
             ELSE [boot EXCEPT !.pc = "returned"]
  /\ UNCHANGED <<baseVars, bootRest>>

\* The running process calls remoteCache.SortedInsert(key, entry) and ZADD
\* ends in reply.
StartupSortedInsert(entry, reply) ==
  /\ boot.pc = "returned"
  /\ boot.inserts < MaxInserts
  /\ \E r \in {RedisSortedInsert(boot.members, entry, reply)} :
       \E b \in {[boot EXCEPT !.members = r.members, !.inserts = @ + 1]} :
         boot' = IF r.fatal
           THEN Fatal([b EXCEPT !.lastInsert = [reply |-> reply, returned |-> FALSE,
                                                 result |-> FALSE, err |-> NoErr]])
           ELSE [b EXCEPT !.lastInsert = [reply |-> reply, returned |-> TRUE,
                                          result |-> r.result, err |-> r.err]]
  /\ UNCHANGED <<baseVars, bootRest>>

NextStartup ==
  \/ \E certPath \in CertPaths, projectId \in ProjectIds, redisTimeout \in RedisTimeouts,
        server \in Servers, firestoreOk \in BOOLEAN :
       StartupBegin(certPath, projectId, redisTimeout, server, firestoreOk)
  \/ StartupCheckBoth
  \/ StartupParseTimeout
  \/ StartupRedis
  \/ StartupLocalDisk
  \/ StartupGoogle
  \/ StartupReturn
  \/ \E entry \in {SerialID(SerialOne), SerialID(SerialTwo)}, reply \in ZAddReplies :
       StartupSortedInsert(entry, reply)

SpecStartup == Init /\ [][NextStartup]_vars

\* GetConfiguredStorage has ended: the process exited or the call returned.
StartupEnded == boot.pc \in {"exited", "returned"}

\* C25: with both a local-disk path and a project id GetConfiguredStorage is
\* fatal before any connection; with neither it prints usage and exits with
\* code 2; it returns only with the project id alone configured and the
\* cache and the backend constructed without error.
C25_StartupOutcomes ==
  StartupEnded =>
    /\ hasLocalDiskConfig /\ hasGoogleConfig =>
         boot.exit = 255 /\ boot.connects = {}
    /\ ~hasLocalDiskConfig /\ ~hasGoogleConfig =>
         boot.usage /\ boot.exit = 2
    /\ boot.pc = "returned" =>
         /\ hasGoogleConfig /\ ~hasLocalDiskConfig
         /\ boot.cache /\ boot.backend /\ boot.db
         /\ boot.server.ping /\ boot.firestoreOk

\* C26: NewRedisCache fails exactly when the ping fails, and returns a cache
\* with a warning logged when the eviction policy is not noeviction; a
\* SortedInsert whose ZADD ends in an OOM error ends the process and returns
\* nothing to the caller.
C26_CachePolicy ==
  /\ "redis" \in boot.connects =>
       /\ boot.cache = boot.server.ping
       /\ boot.cache /\ boot.server.info # InfoNoEviction => boot.warned
       /\ boot.warned => boot.cache
  /\ boot.lastInsert.reply = ErrOOM =>
       /\ ~boot.lastInsert.returned
       /\ boot.pc = "exited" /\ boot.exit = 255
  /\ boot.lastInsert.returned /\ boot.lastInsert.err # NoErr =>
       ~HasPrefix(boot.lastInsert.err, OOMPrefix)

\* A cache was returned by a server with another eviction policy, and a later
\* insert ran out of memory.
C26_Witness ==
  /\ boot.warned /\ boot.server.info = InfoAllKeysLru
  /\ boot.inserts >= 2
  /\ boot.lastInsert.reply = ErrOOM

\* ------------------------------------------------------------------------
\* Serial encodings
\* ------------------------------------------------------------------------
\* The serials encoded: the byte strings of up to MaxSerialLen bytes over
\* SerialBytes, the empty one and those with leading zero bytes included.
SerialBytes == {0, 1, 255}
SerialStrings == UNION {[1..n -> SerialBytes] : n \in 0..MaxSerialLen}
Forms == {"id", "hex", "ascii85"}

\* Serial.ID(), HexString() or Ascii85() of a serial.
EncodeAs(form, serial) ==
  IF form = "id" THEN SerialID(serial)
  ELSE IF form = "hex" THEN HexString(serial)
  ELSE Ascii85(serial)

\* NewSerialFromIDString, NewSerialFromHex or NewSerialFromAscii85.
DecodeAs(form, text) ==
  IF form = "id" THEN NewSerialFromIDString(text)
  ELSE IF form = "hex" THEN NewSerialFromHex(text)
  ELSE NewSerialFromAscii85(text)

\* A serial is built from bytes and encoded.
SerialEncode(serial, form) ==
  /\ codec.form = "none"
  /\ codec' = [NoCodec EXCEPT !.serial = serial, !.form = form,
                              !.text = EncodeAs(form, serial)]
  /\ UNCHANGED <<baseVars, codecRest>>

\* The encoded text is decoded by the constructor of its form.
SerialDecode ==
  /\ codec.form # "none"
  /\ ~codec.decoded
  /\ codec' = [codec EXCEPT !.back = DecodeAs(codec.form, codec.text), !.decoded = TRUE]
  /\ UNCHANGED <<baseVars, codecRest>>

NextSerial ==
  \/ \E serial \in SerialStrings, form \in Forms : SerialEncode(serial, form)
  \/ SerialDecode

SpecSerial == Init /\ [][NextSerial]_vars

\* C27 (Serial encoding round trip): decoding the ID, the hex string or the
\* Ascii85 string of a serial gives the serial's bytes and no error.
C27_SerialRoundTrip ==
  codec.decoded => codec.back.serial = codec.serial /\ ~codec.back.err

\* The empty serial and a serial of leading zero bytes have been decoded from
\* Ascii85, the latter from a text starting with 'z'.
C27_Witness ==
  /\ codec.decoded
  /\ codec.form = "ascii85"
  /\ Len(codec.serial) > 4
  /\ SubSeq(codec.serial, 1, 4) = U32Zero
  /\ codec.text[1] = 122
  /\ codec.serial[Len(codec.serial)] = 255

\* The empty serial has been decoded from its ID.
C27_WitnessEmpty ==
  codec.decoded /\ codec.form = "id" /\ codec.serial = <<>>

\* ------------------------------------------------------------------------
\* reprocess-known-certs: workers, the signal and the end of main
\* ------------------------------------------------------------------------
\* main has installed the signal handler and filled and closed
\* workUnitsChan with units tuples; it starts the workers and the goroutine
\* that waits for them, and reaches its select. The tuples are numbered
\* 1..units in the order they were sent; per tuple the history counts the
\* ReconstructIssuerMetadata calls started and returned and the workers that
\* made them.
ShutdownStart(units) ==
  /\ shut.main = "init"
  /\ shut' = [shut EXCEPT !.main = "select", !.units = units, !.total = units,
                          !.closed = TRUE,
                          !.worker = [w \in Workers |-> "range"], !.waiter = "wait"]
  /\ UNCHANGED <<baseVars, shutRest>>

\* SIGTERM or SIGINT arrives: signal.Notify puts it into sigChan (capacity
\* one, a further signal is dropped).
ShutdownSignal ==
  /\ shut.main \in {"init", "select", "sendQuit"}
  /\ ~shut.sig
  /\ shut' = [shut EXCEPT !.sig = TRUE, !.signalled = TRUE]
  /\ UNCHANGED <<baseVars, shutRest>>

\* A faulty receive: the tuple at the head of the channel is read but stays
\* there for the next receive.
ReceivedLast(total, units) == IF units < total THEN total - units ELSE 1

\* The tuple a receive takes from workUnitsChan, a FIFO channel that held
\* total tuples and holds units of them now: the oldest one left.
Received(total, units) == total - units + 1

\* metadataWorker: for tuple := range metaChan. The channel is closed: a
\* tuple is received if one is left, otherwise the loop ends and the deferred
\* wg.Done() runs.
WorkerRange(w) ==
  /\ shut.main \in {"select", "sendQuit"}
  /\ shut.worker[w] = "range"
  /\ shut' = IF shut.units > 0
               THEN [shut EXCEPT !.units = @ - 1, !.worker[w] = "select",
                                 !.tuple[w] = Received(shut.total, shut.units)]
               ELSE [shut EXCEPT !.worker[w] = "exited"]
  /\ UNCHANGED <<baseVars, shutRest>>

\* metadataWorker: select { case <-quitChan: return; default: ... }. The
\* receive is taken when main is blocked in its send on quitChan, and main's
\* send completes; otherwise the default case starts the work.
WorkerSelect(w) ==
  /\ shut.main \in {"select", "sendQuit"}
  /\ shut.worker[w] = "select"
  /\ shut' = IF shut.main = "sendQuit"
               THEN [shut EXCEPT !.worker[w] = "exited", !.main = "returned"]
               ELSE [shut EXCEPT !.worker[w] = "work",
                                 !.started[shut.tuple[w]] = @ + 1,
                                 !.by[shut.tuple[w]] = @ \cup {w}]
  /\ UNCHANGED <<baseVars, shutRest>>

\* metadataWorker: ReconstructIssuerMetadata returns nil and the loop goes
\* on, or returns an error and glog.Fatalf ends the process.
WorkerWork(w, ok) ==
  /\ shut.main \in {"select", "sendQuit"}
  /\ shut.worker[w] = "work"
  /\ shut' = IF ok THEN [shut EXCEPT !.worker[w] = "range",
                                     !.finished[shut.tuple[w]] = @ + 1]
             ELSE [shut EXCEPT !.main = "exited"]
  /\ UNCHANGED <<baseVars, shutRest>>

\* go func(wait) { wait.Wait(); doneChan <- true }: Wait returns when every
\* worker has called Done; the send then blocks until main receives.
WaiterWait ==
  /\ shut.main \in {"select", "sendQuit"}
  /\ shut.waiter = "wait"
  /\ \A w \in Workers : shut.worker[w] = "exited"
  /\ shut' = [shut EXCEPT !.waiter = "sendDone"]
  /\ UNCHANGED <<baseVars, shutRest>>

\* main: select, case <-sigChan: cancel() and then quitChan <- struct{}{}.
MainSelectSignal ==
  /\ shut.main = "select"
  /\ shut.sig
  /\ shut' = [shut EXCEPT !.main = "sendQuit", !.sig = FALSE, !.caught = TRUE]
  /\ UNCHANGED <<baseVars, shutRest>>

\* main: select, case <-doneChan: cancel(), log and return.
MainSelectDone ==
  /\ shut.main = "select"
  /\ shut.waiter = "sendDone"
  /\ shut' = [shut EXCEPT !.main = "returned", !.waiter = "done"]
  /\ UNCHANGED <<baseVars, shutRest>>

WorkerStep(w) == WorkerRange(w) \/ WorkerSelect(w) \/ (\E ok \in BOOLEAN : WorkerWork(w, ok))
MainStep == MainSelectSignal \/ MainSelectDone

NextShutdown ==
  \/ \E units \in 0..MaxUnits : ShutdownStart(units)
  \/ ShutdownSignal
  \/ \E w \in Workers : WorkerStep(w)
  \/ WaiterWait
  \/ MainStep

\* Every goroutine that can take a step eventually takes one.
SpecShutdown ==
  /\ Init
  /\ [][NextShutdown]_vars
  /\ WF_vars(\E units \in 0..MaxUnits : ShutdownStart(units))
  /\ \A w \in Workers : WF_vars(WorkerStep(w))
  /\ WF_vars(WaiterWait)
  /\ WF_vars(MainStep)

\* C28 (Graceful shutdown): once a signal has been received, main eventually
\* returns (or the process has ended), whatever the workers are doing.
C28_ShutdownTerminates ==
  shut.signalled ~> shut.main \in {"returned", "exited"}

\* C38 (All workers stop on a signal): when main has returned after catching
\* a signal, every metadataWorker has received the quit notification and
\* returned, and no tuple left in the queue is processed.
C38_AllWorkersQuit ==
  shut.main = "returned" /\ shut.caught =>
    \A w \in Workers : shut.worker[w] = "exited"

ListValues == 0..2
KnownLists == UNION {[1..n -> ListValues] : n \in 0..MaxListLen}

\* A faulty comparison: the receiver's element is never taken first.
LessNever(a, b) == FALSE

\* left[i].Cmp(right[j]) < 0
Less(a, b) == a < b

\* Merge from positions i and j on: the smaller head is appended, the
\* receiver's on a tie last; an element smaller than the one appended before
\* it is the error "Unsorted merge".
RECURSIVE MergeFrom(_, _, _, _, _)
MergeFrom(left, right, i, j, out) ==
  IF i > Len(left) /\ j > Len(right) THEN [known |-> out, err |-> "nil"]
  ELSE
    LET takeLeft == j > Len(right) \/ (i <= Len(left) /\ Less(left[i], right[j]))
        next == IF takeLeft THEN left[i] ELSE right[j]
    IN IF Len(out) > 0 /\ out[Len(out)] > next
         THEN [known |-> Append(out, next), err |-> "Unsorted merge"]
         ELSE MergeFrom(left, right, IF takeLeft THEN i + 1 ELSE i,
                        IF takeLeft THEN j ELSE j + 1, Append(out, next))

\* left.Merge(right): the receiver's list afterwards and the error.
Merge(left, right) == MergeFrom(left, right, 1, 1, <<>>)

\* KnownCertificates.IsSorted(): no element is smaller than the one before.
IsSorted(known) == \A n \in 1..(Len(known) - 1) : ~(known[n + 1] < known[n])

\* left.Merge(right) is called on two lists.
MergeCall(left, right) ==
  /\ merged.op = "none"
  /\ \E r \in {Merge(left, right)} :
       merged' = [op |-> "Merge", left |-> left, right |-> right, known |-> r.known,
                  err |-> r.err, sorted |-> FALSE]
  /\ UNCHANGED <<baseVars, mergedRest>>

\* IsSorted() is called on a list.
IsSortedCall(known) ==
  /\ merged.op = "none"
  /\ merged' = [op |-> "IsSorted", left |-> known, right |-> <<>>, known |-> known,
                err |-> "nil", sorted |-> IsSorted(known)]
  /\ UNCHANGED <<baseVars, mergedRest>>

NextMerge ==
  \/ \E left, right \in KnownLists : MergeCall(left, right)
  \/ \E known \in KnownLists : IsSortedCall(known)

SpecMerge == Init /\ [][NextMerge]_vars

\* A list is ascending: each element is greater than the one before.
Ascending(list) == \A n \in 1..(Len(list) - 1) : list[n] < list[n + 1]

\* A list is in order: no element is smaller than the one before.
NonDescending(list) == \A n \in 1..(Len(list) - 1) : list[n] <= list[n + 1]

C29_WitnessUnsorted ==
  merged.op = "Merge" /\ merged.left = <<1, 2, 0>> /\ merged.err = "Unsorted merge"

\* ------------------------------------------------------------------------
\* Store with failing cache and backend operations
\* ------------------------------------------------------------------------
\* The operations of Store in program order.
StoreOrder ==
  <<"WasUnknown", "Accumulate", "AllocateExpDateAndIssuer", "SetExpiryFlag",
    "StoreCertificatePEM", "MarkDirty">>

\* The operation of one Store call that returns an error: none, the
\* SortedInsert of WasUnknown, the Exists or the first SortedInsert of
\* Accumulate, or a backend call.
StoreFaults ==
  {"none", "WasUnknown", "AccumulateExists", "AccumulateInsert",
   "AllocateExpDateAndIssuer", "StoreCertificatePEM", "MarkDirty"}

\* The certificates stored: those of the concurrent Store calls and one with
\* a CRL distribution point.
FaultCerts ==
  {c \in Certs : c.serial = SerialOne}
    \cup {[Cert(1, IssuerA, SerialTwo, DnA) EXCEPT !.crls = <<CrlHttpA>>]}

\* The StoreOrder name of the operation a fault is in.
FaultOp(fault) ==
  IF fault \in {"AccumulateExists", "AccumulateInsert"} THEN "Accumulate" ELSE fault

\* A faulty test: Store goes on after an error.
ProceedsAlways(r) == TRUE

\* if err != nil { return err } has not been taken so far.
Proceeds(r) == r.err = "nil"

\* certWasUnknown, err := knownCerts.WasUnknown(serialNum)
RunWasUnknown(c, fault) ==
  LET wu == WasUnknown(cacheData, c.expDate, c.issuer, c.serial)
      failed == fault = "WasUnknown"
  IN [data |-> IF failed THEN cacheData ELSE wu.data, exp |-> cacheExp, e2i |-> beE2I,
      e2s |-> beE2S, store |-> beStore, meta |-> meta, ops |-> <<"WasUnknown">>,
      err |-> IF failed THEN "WasUnknown" ELSE "nil",
      unknown |-> ~failed /\ wu.result, seen |-> FALSE]

\* issuerSeenBefore, err := db.GetIssuerMetadata(issuer).Accumulate(aCert)
RunAccumulate(r, c, fault) ==
  IF ~(Proceeds(r) /\ r.unknown) THEN r
  ELSE LET acc == Accumulate(CleanupData(r.data, r.exp, now), NewHandle(c.issuer), c,
                             IF fault = "AccumulateExists" THEN 1
                             ELSE IF fault = "AccumulateInsert" THEN 2 ELSE 0)
       IN [r EXCEPT !.data = acc.data, !.exp = CleanupExpirations(r.exp, now),
                    !.meta = @ \cup {c.issuer}, !.ops = Append(@, "Accumulate"),
                    !.err = IF acc.err THEN "Accumulate" ELSE "nil",
                    !.seen = acc.seenBefore]

\* if !issuerSeenBefore { AllocateExpDateAndIssuer; SetExpiryFlag }
RunAllocate(r, c, fault) ==
  IF ~(Proceeds(r) /\ r.unknown /\ ~r.seen) THEN r
  ELSE IF fault = "AllocateExpDateAndIssuer"
    THEN [r EXCEPT !.ops = Append(@, "AllocateExpDateAndIssuer"),
                   !.err = "AllocateExpDateAndIssuer"]
  ELSE [r EXCEPT !.e2i = AllocateExpDateAndIssuer(r.e2i, c.expDate, c.issuer),
                 !.exp = SetExpiryFlag(r.exp, c.expDate, c.issuer),
                 !.ops = @ \o <<"AllocateExpDateAndIssuer", "SetExpiryFlag">>]

\* errStore := db.backend.StoreCertificatePEM(...)
RunStorePEM(r, c, fault, entryId) ==
  IF ~(Proceeds(r) /\ r.unknown) THEN r
  ELSE IF fault = "StoreCertificatePEM"
    THEN [r EXCEPT !.ops = Append(@, "StoreCertificatePEM"), !.err = "StoreCertificatePEM"]
  ELSE [r EXCEPT !.store = StorePEMDoc(r.store, c.serial, c.expDate, c.issuer,
                                       PemBlock(c, entryId, now)),
                 !.e2s = StorePEMSerials(r.e2s, c.serial, c.expDate, c.issuer),
                 !.ops = Append(@, "StoreCertificatePEM")]

\* err = db.markDirty(&aCert.NotAfter)
RunMarkDirty(r, fault) ==
  IF ~Proceeds(r) THEN r
  ELSE [r EXCEPT !.ops = Append(@, "MarkDirty"),
                 !.err = IF fault = "MarkDirty" THEN "MarkDirty" ELSE "nil"]

\* FilesystemDatabase.Store(c) with the given operation failing.
StoreFaulty(c, fault) ==
  /\ sterr.n < MaxFaultStores
  /\ \E r1 \in {RunWasUnknown(c, fault)} :
     \E r2 \in {RunAccumulate(r1, c, fault)} :
     \E r3 \in {RunAllocate(r2, c, fault)} :
     \E r4 \in {RunStorePEM(r3, c, fault, sterr.n)} :
     \E r5 \in {RunMarkDirty(r4, fault)} :
       /\ cacheData' = r5.data
       /\ cacheExp' = r5.exp
       /\ beE2I' = r5.e2i
       /\ beE2S' = r5.e2s
       /\ beStore' = r5.store
       /\ meta' = r5.meta
       /\ sterr' = [n |-> sterr.n + 1, cert |-> c, fault |-> fault, ops |-> r5.ops,
                    err |-> r5.err, unknown |-> r5.unknown,
                    before |-> [data |-> cacheData, e2i |-> beE2I, e2s |-> beE2S,
                                store |-> beStore],
                    called |-> sterr.called \cup {<<c.expDate, c.issuer>>},
                    firstFailed |->
                      IF /\ <<c.expDate, c.issuer>> \notin sterr.called
                         /\ r5.err \in {"Accumulate", "AllocateExpDateAndIssuer",
                                        "StoreCertificatePEM"}
                        THEN sterr.firstFailed \cup {<<c.expDate, c.issuer>>}
                        ELSE sterr.firstFailed]
  /\ UNCHANGED <<now, workerVars, historyVars, calls, followerVars, metaVars, backendVars,
                 stream, sterrRest>>

NextStoreFaulty == \E c \in FaultCerts, fault \in StoreFaults : StoreFaulty(c, fault)

SpecStoreFaulty == Init /\ [][NextStoreFaulty]_vars

\* The position of an operation in StoreOrder.
OrderIndex(op) == CHOOSE n \in 1..Len(StoreOrder) : StoreOrder[n] = op

\* C30 (Store is fail-fast): the operations of a Store call are made in the
\* order WasUnknown, Accumulate, AllocateExpDateAndIssuer, SetExpiryFlag,
\* StoreCertificatePEM, MarkDirty; an operation that fails is the last one
\* made and its error is returned; after an error of WasUnknown nothing has
\* been written; MarkDirty is called exactly once by a call that returns nil
\* and never by a call that returns the error of an earlier operation.
C30_StoreFailFast ==
  sterr.n > 0 =>
    /\ \A i, j \in 1..Len(sterr.ops) :
         i < j => OrderIndex(sterr.ops[i]) < OrderIndex(sterr.ops[j])
    /\ FaultOp(sterr.fault) \in Range(sterr.ops) =>
         /\ sterr.err = FaultOp(sterr.fault)
         /\ sterr.ops[Len(sterr.ops)] = sterr.err
    /\ FaultOp(sterr.fault) \notin Range(sterr.ops) => sterr.err = "nil"
    /\ sterr.err = "WasUnknown" =>
         /\ cacheData = sterr.before.data
         /\ beE2I = sterr.before.e2i
         /\ beE2S = sterr.before.e2s
         /\ beStore = sterr.before.store
    /\ sterr.err = "nil" => Occurrences(sterr.ops, "MarkDirty") = 1
    /\ sterr.err \notin {"nil", "MarkDirty"} => "MarkDirty" \notin Range(sterr.ops)
    /\ sterr.err = "nil" /\ sterr.unknown =>
         PemKey(sterr.cert.expDate, sterr.cert.issuer, sterr.cert.serial) \in DOMAIN beStore

\* A Store of a new certificate of a new issuer failed in the allocation,
\* after an earlier Store of an already-known certificate returned nil.
C30_Witness ==
  /\ sterr.n >= 2
  /\ sterr.err = "AllocateExpDateAndIssuer"
  /\ sterr.ops = <<"WasUnknown", "Accumulate", "AllocateExpDateAndIssuer">>
  /\ \E k \in DOMAIN cacheData : k[1] = "serials" /\ Len(cacheData[k]) = 1

\* A Store of an already-known certificate returned nil.
C30_WitnessKnown ==
  sterr.n >= 2 /\ sterr.err = "nil" /\ sterr.ops = <<"WasUnknown", "MarkDirty">>

\* The shard (e, i) holds a PEM document.
HoldsPem(e, i) == \E k \in DOMAIN beStore : k[1] = "pem" /\ k[2] = e /\ k[3] = i

\* C31 (Allocation recovers): a shard whose first Store failed after the
\* known-set insert and which holds a PEM document written by a later Store
\* has its marker: its date and issuer are listed by the backend.
C31_AllocationRecovers ==
  \A shard \in sterr.firstFailed :
    HoldsPem(shard[1], shard[2]) =>
      /\ shard[1] \in DOMAIN beE2I
      /\ shard[2] \in Range(ListIssuersForExpirationDate(beE2I, shard[1]))

\* The streams over shards that may hold documents with undecodable IDs.
NextStreamInvalid ==
  \/ NextStream
  \/ \E id \in InvalidIDs : StreamStoreInvalid(id)

SpecStreamInvalid == Init /\ [][NextStreamInvalid]_vars

\* C33: in a shard that also holds documents whose ID is no serial, the
\* Firestore stream sends no serial twice, and when its goroutine returns
\* without an unrecoverable error it has sent every stored serial once.
C33_StreamSkipsInvalid ==
  stream.backend = "fs" =>
    /\ \A n, k \in 1..Len(Sent) : n # k => Sent[n] # Sent[k]
    /\ stream.pc = "done" /\ ~stream.fatal => Range(Sent) = StoredSerials

\* ------------------------------------------------------------------------
\* The sorted sets called directly: MockRemoteCache.SetInsert, SetRemove and
\* SetContains on one key, addCRL and Accumulate on one file-backed
\* IssuerMetadata
\* ------------------------------------------------------------------------
SetKey == <<"set", 0, <<>>>>

\* The entries of the calls: "A", "a", "ab", "b".
SetEntries == {<<65>>, <<97>>, <<97, 98>>, <<98>>}

\* The variables the set calls leave alone.
setFrame == <<beVars, meta, workerVars, historyVars, calls, followerVars, metaVars,
              backendVars, stream, setsRest>>

\* SetInsert(SetKey, entry) on the mock cache.
SetInsertCall(entry) ==
  /\ \E r \in {SetInsert(cacheData, SetKey, entry)} :
       /\ cacheData' = r.data
       /\ sets' = [sets EXCEPT !.op = "SetInsert", !.entry = entry, !.dps = <<>>,
                               !.result = r.result,
                               !.contained = SetContains(r.data, SetKey, entry),
                               !.before = DataAt(cacheData, SetKey),
                               !.inserted = @ \cup {entry}]
  /\ UNCHANGED <<cacheExp, now, setFrame>>

\* SetRemove(SetKey, entry) on the mock cache, and the SetContains(SetKey,
\* entry) that follows it.
SetRemoveCall(entry) ==
  /\ \E d \in {CleanupData(cacheData, cacheExp, now)} :
     \E r \in {SetRemove(d, SetKey, entry)} :
       /\ cacheData' = r.data
       /\ sets' = [sets EXCEPT !.op = "SetRemove", !.entry = entry, !.dps = <<>>,
                               !.result = r.result,
                               !.contained = SetContains(r.data, SetKey, entry),
                               !.before = DataAt(d, SetKey)]
  /\ cacheExp' = CleanupExpirations(cacheExp, now)
  /\ UNCHANGED <<now, setFrame>>

\* SetContains(SetKey, entry) on the mock cache.
SetContainsCall(entry) ==
  /\ \E d \in {CleanupData(cacheData, cacheExp, now)} :
       /\ cacheData' = d
       /\ sets' = [sets EXCEPT !.op = "SetContains", !.entry = entry, !.dps = <<>>,
                               !.result = SetContains(d, SetKey, entry),
                               !.contained = SetContains(d, SetKey, entry),
                               !.before = DataAt(d, SetKey)]
  /\ cacheExp' = CleanupExpirations(cacheExp, now)
  /\ UNCHANGED <<now, setFrame>>

\* addCRL(entry) on the file-backed metadata.
AddCRLCall(entry) ==
  /\ sets' = [sets EXCEPT !.op = "addCRL", !.entry = entry, !.dps = <<>>,
                          !.result = FALSE, !.contained = FALSE,
                          !.before = sets.crls,
                          !.crls = addCRL(@, entry),
                          !.added = @ \cup {entry}]
  /\ UNCHANGED <<cacheVars, now, setFrame>>

\* The most distribution points of one certificate.
MaxDPs == 3

\* The distribution points of the certificates: http, ldap, https, ftp and
\* one that does not parse.
DPs == {CrlHttpA, CrlLdapB, CrlHttpsC, CrlFtpD, CrlNoScheme}

DPLists == UNION {[1..n -> DPs] : n \in 1..MaxDPs}

\* Accumulate(aCert) on the file-backed metadata, aCert with the
\* distribution points dps.
FileAccumulateCall(dps) ==
  /\ sets' = [sets EXCEPT !.op = "Accumulate", !.entry = <<>>, !.dps = dps,
                          !.result = FALSE, !.contained = FALSE,
                          !.before = sets.crls,
                          !.crls = FileAccumulate(@, dps)]
  /\ UNCHANGED <<cacheVars, now, setFrame>>

NextSetInsert == \E entry \in SetEntries : SetInsertCall(entry) \/ AddCRLCall(entry)

\* Any sequence of SetInsert calls on one key and of addCRL calls on one
\* metadata.
SpecSetInsert == Init /\ [][NextSetInsert]_vars

NextSet ==
  \E entry \in SetEntries :
    SetInsertCall(entry) \/ SetRemoveCall(entry) \/ SetContainsCall(entry)

\* Any sequence of SetInsert, SetRemove and SetContains calls on one key.
SpecSet == Init /\ [][NextSet]_vars

NextFileMeta == \E dps \in DPLists : FileAccumulateCall(dps)

\* Any sequence of Accumulate calls on one file-backed metadata.
SpecFileMeta == Init /\ [][NextFileMeta]_vars

\* A list of strings is strictly ascending by strings.Compare.
StrictlyAscending(list) ==
  \A n \in 1..(Len(list) - 1) : Compare(list[n], list[n + 1]) < 0

\* C34 (Sorted-set invariant): after any sequence of SetInsert calls the list
\* under the key, which is what SetList returns, is strictly ascending and
\* holds exactly the entries inserted, and SetInsert has returned true exactly
\* when the entry was not in the list; after any sequence of addCRL calls
\* Crls is strictly ascending and holds exactly the entries added.
C34_SortedSet ==
  /\ StrictlyAscending(SetList(cacheData, SetKey))
  /\ Range(SetList(cacheData, SetKey)) = sets.inserted
  /\ sets.op = "SetInsert" =>
       /\ sets.result <=> sets.entry \notin Range(sets.before)
       /\ sets.contained
  /\ StrictlyAscending(sets.crls)
  /\ Range(sets.crls) = sets.added

\* All four entries are in the set and in Crls, "ab" added last to a list
\* holding "a" and "b", and the last SetInsert met an entry already there.
C34_Witness ==
  /\ SetList(cacheData, SetKey) = <<<<65>>, <<97>>, <<97, 98>>, <<98>>>>
  /\ sets.crls = <<<<65>>, <<97>>, <<97, 98>>, <<98>>>>
  /\ sets.op = "addCRL" /\ sets.entry = <<97, 98>>
  /\ sets.before = <<<<65>>, <<97>>, <<98>>>>

\* A SetInsert of an entry already in the set has returned false.
C34_WitnessKnown ==
  /\ sets.op = "SetInsert" /\ ~sets.result
  /\ Len(sets.before) = 3

\* C35 (File-backed Accumulate): after Accumulate every http and https
\* distribution point of the certificate is in Crls, wherever it stands
\* relative to the ldap and ldaps entries.
C35_AccumulateAllHttp ==
  sets.op = "Accumulate" =>
    \A n \in 1..Len(sets.dps) :
      ParseURL(sets.dps[n]).scheme \in {SchemeHttp, SchemeHttps} =>
        sets.dps[n] \in Range(sets.crls)

\* C40 (SetRemove): a SetRemove of a member returns true, after it
\* SetContains is false and the list is the one before without the entry; a
\* SetRemove of a non-member returns false and leaves the list as it was.
C40_SetRemove ==
  sets.op = "SetRemove" =>
    IF sets.entry \in Range(sets.before)
      THEN /\ sets.result
           /\ ~sets.contained
           /\ Len(SetList(cacheData, SetKey)) = Len(sets.before) - 1
           /\ Range(SetList(cacheData, SetKey)) = Range(sets.before) \ {sets.entry}
      ELSE /\ ~sets.result
           /\ SetList(cacheData, SetKey) = sets.before

\* ------------------------------------------------------------------------
\* DiskDatabase.Store on one shard file
\* ------------------------------------------------------------------------
\* The Store calls made on the DiskDatabase.
MaxDiskStores == 3

\* What db.cache.Get returns on the second pass of the loop: the entry of
\* the first pass; or, the entry having been evicted, a new one loaded from
\* the .known file that Close saved after ("savedAfter") or before
\* ("savedBefore") the WasUnknown call of the first pass.
SecondEntries == {"same", "savedAfter", "savedBefore"}

\* One pass of the loop in Store on a cache entry whose known serials are
\* mem: WasUnknown, which records the serial, and for an unknown serial
\* Accumulate and pem.Encode, whose error is the pass's err; for a known
\* serial err is the nil of WasUnknown.
DiskAttempt(mem, serial, encodeFails) ==
  [mem |-> mem \cup {serial},
   unknown |-> serial \notin mem,
   wrote |-> serial \notin mem /\ ~encodeFails,
   err |-> serial \notin mem /\ encodeFails]

\* The err tested after the loop: the variable declared before the loop,
\* which the loop never assigns, its own err being declared anew in the
\* loop body by `obj, err := db.cache.Get(filePath)`.
ErrAfterLoop(attempts) == FALSE

\* DiskDatabase.Store(aCert, aLogURL) for a certificate of the shard with
\* the serial given. fails: the passes whose pem.Encode returns an error;
\* second: the entry of the second pass; dirtyFails: markDirty fails.
DiskStoreRun(d, serial, fails, second, dirtyFails) ==
  LET a1 == DiskAttempt(d.mem, serial, 1 \in fails)
      mem2 == IF second = "savedBefore" THEN d.mem ELSE a1.mem
      file2 == IF second = "same" THEN d.file ELSE mem2
      a2 == DiskAttempt(mem2, serial, 2 \in fails)
      attempts == IF a1.err THEN <<a1, a2>> ELSE <<a1>>
      lastA == attempts[Len(attempts)]
      wrote == {n \in 1..Len(attempts) : attempts[n].wrote}
      accs == {n \in 1..Len(attempts) : attempts[n].unknown}
      err == IF ErrAfterLoop(attempts) THEN "Cache eviction collision"
             ELSE IF dirtyFails THEN "markDirty" ELSE "nil"
  IN [n |-> d.n + 1,
      mem |-> lastA.mem,
      file |-> IF a1.err THEN file2 ELSE d.file,
      pems |-> IF wrote = {} THEN d.pems ELSE Append(d.pems, serial),
      crls |-> IF accs = {} THEN d.crls ELSE FileAccumulate(d.crls, <<CrlHttpA>>),
      dirty |-> d.dirty \/ (err = "nil"),
      last |-> [serial |-> serial, known |-> serial \in d.mem,
                attempts |-> attempts, err |-> err]]

DiskStore(serial, fails, second, dirtyFails) ==
  /\ disk.n < MaxDiskStores
  /\ disk' = DiskStoreRun(disk, serial, fails, second, dirtyFails)
  /\ UNCHANGED <<baseVars, diskRest>>

NextDisk ==
  \E serial \in Serials, fails \in SUBSET {1, 2}, second \in SecondEntries,
     dirtyFails \in BOOLEAN :
    DiskStore(serial, fails, second, dirtyFails)

\* Up to MaxDiskStores Store calls on the DiskDatabase, with failing writes
\* and evictions of the cache entry.
SpecDisk == Init /\ [][NextDisk]_vars

\* C36 (DiskDatabase.Store reports a failed write): a Store that returned
\* nil had a certificate known before the call or has written its PEM block;
\* after a failed first write the second pass writes the block again; and
\* when no pass has written the block of a new certificate Store returns the
\* error.
C36_DiskStoreReports ==
  disk.last.err # "none" =>
    \A written \in {\E n \in 1..Len(disk.last.attempts) : disk.last.attempts[n].wrote} :
      /\ disk.last.err = "nil" => disk.last.known \/ written
      /\ Len(disk.last.attempts) = 2 => disk.last.attempts[2].unknown
      /\ ~disk.last.known /\ ~written => disk.last.err # "nil"

\* ------------------------------------------------------------------------
\* FilesystemDatabase.GetIssuerMetadata called concurrently
\* ------------------------------------------------------------------------
\* The GetIssuerMetadata calls made.
MaxGets == 3

\* db.metaMutex.RLock(): granted while no writer holds the mutex.
GetRLock(w, issuer) ==
  /\ gim.pc[w] = "idle"
  /\ gim.n < MaxGets
  /\ ~gim.writer
  /\ gim' = [gim EXCEPT !.pc[w] = "lookup", !.issuer[w] = issuer,
                        !.readers = @ + 1, !.n = @ + 1]
  /\ UNCHANGED <<baseVars, gimRest>>

\* im, ok := db.meta[aIssuer.ID()]: with ok, RUnlock and return im; without,
\* RUnlock and go on to Lock.
GetLookup(w) ==
  /\ gim.pc[w] = "lookup"
  /\ gim' = IF gim.map[gim.issuer[w]] # 0
              THEN [gim EXCEPT !.pc[w] = "idle", !.readers = @ - 1,
                               !.got[gim.issuer[w]] = @ \cup {gim.map[gim.issuer[w]]}]
              ELSE [gim EXCEPT !.pc[w] = "lock", !.readers = @ - 1]
  /\ UNCHANGED <<baseVars, gimRest>>

\* db.metaMutex.Lock(): granted while no reader and no writer holds the mutex.
GetLock(w) ==
  /\ gim.pc[w] = "lock"
  /\ gim.readers = 0 /\ ~gim.writer
  /\ gim' = [gim EXCEPT !.pc[w] = "install", !.writer = TRUE]
  /\ UNCHANGED <<baseVars, gimRest>>

\* im = NewIssuerMetadata(...); db.meta[aIssuer.ID()] = im; Unlock; return im.
\* The handles are numbered in the order of their creation.
GetInstall(w) ==
  /\ gim.pc[w] = "install"
  /\ gim' = [gim EXCEPT !.pc[w] = "idle", !.writer = FALSE,
                        !.handles = @ + 1,
                        !.map[gim.issuer[w]] = gim.handles + 1,
                        !.installs[gim.issuer[w]] = @ + 1,
                        !.got[gim.issuer[w]] = @ \cup {gim.handles + 1}]
  /\ UNCHANGED <<baseVars, gimRest>>

NextGets ==
  \E w \in Workers :
    \/ \E issuer \in Issuers : GetRLock(w, issuer)
    \/ GetLookup(w)
    \/ GetLock(w)
    \/ GetInstall(w)

\* Up to MaxGets GetIssuerMetadata calls by two goroutines.
SpecGets == Init /\ [][NextGets]_vars

\* C37 (GetIssuerMetadata): metaMutex is free whenever no call is in
\* progress, at most one handle is ever installed for an issuer, and all
\* callers asking for an issuer have received the same handle.
C37_SingleHandle ==
  /\ (\A w \in Workers : gim.pc[w] = "idle") => gim.readers = 0 /\ ~gim.writer
  /\ \A i \in Issuers :
       /\ gim.installs[i] <= 1
       /\ Cardinality(gim.got[i]) <= 1
====
